---- MODULE Spec2Model ----
(***************************************************************************)
(* A model of the policy manager of the OpFlex agent                       *)
(* (agent-ovs/lib/PolicyManager.cpp): the MO store it resolves objects     *)
(* from, the index maps it maintains, the keyed task queue that runs its   *)
(* update routines, and the rule compiler.                                 *)
(*                                                                         *)
(* Conventions.  An optional value (boost::optional, a shared handle that  *)
(* may be absent) is a set with at most one element: None or Some(x).  A   *)
(* map (std::unordered_map, std::map) is a function whose DOMAIN is the    *)
(* set of keys present.  A handle to a resolved MO is the immutable        *)
(* snapshot of the object taken when it was resolved.                      *)
(***************************************************************************)
EXTENDS Integers, Sequences, FiniteSets, TLC

VARIABLES
    \* ---- the MO store (external collaborator, changed by the controller)
    stEpg,          \* EpGroup objects,            [Groups -> optional EpGroup]
    stFD,           \* FloodDomain objects
    stBD,           \* BridgeDomain objects
    stRD,           \* RoutingDomain objects
    stNet,          \* L3ExternalNetwork objects (children of a routing domain)
    stContract,     \* Contract objects with their subjects, rules, classifiers
    stRedir,        \* RedirectDestGroup objects with their destinations
    stAux,          \* Subnets objects and EndpointRetention objects
    \* ---- the indices of PolicyManager (guarded by state_mutex)
    group_map,
    vnid_map,
    contractMap,
    groupContractMap,
    redirGrpMap,
    rd_map,
    l3n_map,
    nat_epg_l3_ext,
    \* ---- the task queue and the record of the last completed task
    pending,        \* keys of the tasks dispatched and not yet started
    lastTask,       \* the task the worker completed last, with what it notified
    \* ---- the rule compiler run on its own (updatePolicyRules)
    ruleIn,         \* the parent object handed to the compiler
    ruleOut,        \* what the compiler produced for it
    \* ---- the bookkeeping of the replay of a sequence of events
    replay,         \* the round, the indices after the first round, and
                    \* what the current round has notified
    \* ---- security groups
    stSecGrp,       \* SecGroup objects with their subjects, rules, classifiers
    secGrpMap,      \* the index of PolicyManager (guarded by state_mutex)
    \* ---- the task queue itself
    taskQueue,      \* the tasks dispatched and not yet started, in order
    queueLog,       \* per class-wide key: the events since the key was last
                    \* absent from the queue, and the runs they have caused
    \* ---- the two mutexes and the threads
    state_mutex,    \* the thread that holds state_mutex, if any
    listener_mutex, \* the thread that holds listener_mutex, if any
    threads,        \* per thread: where it is and what it carries
    \* ---- the registrations with the MO store
    registered,     \* the pairs of sink and class registered as listener
    \* ---- the policy listeners and what has been delivered to them
    policyListeners, \* the registered listeners, in order of registration
    delivery,       \* the notifications of the last task and who got them
    \* ---- a query called on its own
    callIn,         \* the arguments of the last call
    callOut         \* what it returned

storeVars == <<stEpg, stFD, stBD, stRD, stNet, stContract, stRedir, stAux>>
domainVars == <<group_map, vnid_map>>
contractVars == <<contractMap, groupContractMap>>
l3Vars == <<rd_map, l3n_map, nat_epg_l3_ext>>
indexVars == <<domainVars, contractVars, redirGrpMap, l3Vars>>
compilerVars == <<ruleIn, ruleOut>>
\* the variables that the specifications of the indices leave alone
secVars == <<stSecGrp, secGrpMap>>
queueVars == <<taskQueue, queueLog>>
lockVars == <<state_mutex, listener_mutex, threads>>
lifeVars == <<registered>>
listenVars == <<policyListeners, delivery>>
callVars == <<callIn, callOut>>
runtimeVars == <<replay, secVars, queueVars, lockVars, lifeVars, listenVars,
                 callVars>>
vars == <<stEpg, stFD, stBD, stRD, stNet, stContract, stRedir, stAux,
          group_map, vnid_map, contractMap, groupContractMap, redirGrpMap,
          rd_map, l3n_map, nat_epg_l3_ext, pending, lastTask, ruleIn, ruleOut,
          replay, stSecGrp, secGrpMap, taskQueue, queueLog,
          state_mutex, listener_mutex, threads, registered,
          policyListeners, delivery, callIn, callOut>>

----------------------------------------------------------------------------
(* Optional values and maps *)

None == {}
Some(x) == {x}
Get(o) == CHOOSE x \in o : TRUE

EmptyMap == <<>>
MapPut(m, k, v) == [x \in (DOMAIN m) \cup {k} |-> IF x = k THEN v ELSE m[x]]
MapErase(m, k) == [x \in (DOMAIN m) \ {k} |-> m[x]]
\* std::unordered_map::insert: an existing key keeps its value
MapInsert(m, k, v) == IF k \in DOMAIN m THEN m ELSE MapPut(m, k, v)

MapEraseIf(cond, m, k) == IF cond THEN MapErase(m, Get(k)) ELSE m
MapInsertIf(cond, m, k, v) == IF cond THEN MapInsert(m, Get(k), v) ELSE m

\* the orders in which a hash container may be iterated
Perms(S) ==
    {p \in [1..Cardinality(S) -> S] :
        \A i, j \in 1..Cardinality(S) : i # j => p[i] # p[j]}

----------------------------------------------------------------------------
(* Bounds of the model and the universes of URIs *)

MaxEncap == 2
Encaps == 1..MaxEncap

Groups == {"g1", "g2"}
FDs == {"fd1"}
BDs == {"bd1"}
RDs == {"rd1", "rd2"}
Nets == {"n1", "n2", "n3"}
Contracts == {"c1", "c2"}
RedirGrps == {"rg1"}
SecGrps == {"s1", "s2"}
Rets == {"ret2", "ret3"}
SubnetsURIs == {"sns1"}

\* class ids
EpGroupClass == "EpGroup"
FloodDomainClass == "FloodDomain"
BridgeDomainClass == "BridgeDomain"
RoutingDomainClass == "RoutingDomain"
L3ExternalNetworkClass == "L3ExternalNetwork"
ContractClass == "Contract"
RedirectDestGroupClass == "RedirectDestGroup"
RedirectDestClass == "RedirectDest"
SecGroupClass == "SecGroup"

Ref(c, u) == [cls |-> c, uri |-> u]
InstCtx(e, r) == [encap |-> e, ret |-> r]

----------------------------------------------------------------------------
(* The MO store: resolve<Class>(uri) and the children of an object *)

\* an EpGroup object: its InstContext child, its EpGroupToNetworkRSrc and
\* EpGroupToSubnetsRSrc references and the targets of its contract relations
EpGroupObj(inst, net, sns, prov, cons, intra) ==
    [inst |-> inst, net |-> net, sns |-> sns,
     prov |-> prov, cons |-> cons, intra |-> intra]
FloodDomainObj(net, ctx, sns) == [net |-> net, ctx |-> ctx, sns |-> sns]
BridgeDomainObj(net, inst, sns) == [net |-> net, inst |-> inst, sns |-> sns]
RoutingDomainObj(inst, sns) == [inst |-> inst, sns |-> sns]

\* Subnets::resolve followed by resolveGbpSubnet: the subnet children of
\* the Subnets object an optional reference targets, keyed by subnet URI
resolveSubnetChildren(snsRef) ==
    IF snsRef = None THEN EmptyMap
    ELSE IF stAux.subnets[Get(snsRef)] = None THEN EmptyMap
    ELSE LET kids == Get(stAux.subnets[Get(snsRef)])
         IN  [u \in {k.uri : k \in kids} |-> CHOOSE k \in kids : k.uri = u]

\* EndpointRetention::resolve
resolveRetention(u) == IF u \in stAux.rets THEN Some(u) ELSE None

\* newsmap[csn->getURI()] = csn for every child: the later write wins
MapUnion(m, n) ==
    [u \in (DOMAIN m) \cup (DOMAIN n) |-> IF u \in DOMAIN n THEN n[u] ELSE m[u]]

----------------------------------------------------------------------------
(* Domain resolver: updateEPGDomains and updateDomain *)

DefaultGroupState ==
    [epGroup |-> None, instContext |-> None, floodDomain |-> None,
     floodContext |-> None, bridgeDomain |-> None, routingDomain |-> None,
     subnet_map |-> EmptyMap, instBDContext |-> None, instRDContext |-> None,
     l2EpRetPolicy |-> None, l3EpRetPolicy |-> None]

\* operator!= of two optional shared handles compares the pointers, and
\* every resolve returns a handle of its own: the two are equal only when
\* both are absent
PtrNeq(newHandle, oldHandle) == ~(newHandle = None /\ oldHandle = None)

\* the retention policy an instance context refers to, resolved
retentionOf(inst) ==
    IF inst = None THEN None
    ELSE IF Get(inst).ret = None THEN None
    ELSE resolveRetention(Get(Get(inst).ret))

\* case RoutingDomain::CLASS_ID of the walk, newrd being what
\* RoutingDomain::resolve returned: the chain ends here
walkRoutingDomain(d, acc, newrd) ==
    IF newrd = None
    THEN [next |-> None, fwdSns |-> None, acc |-> [acc EXCEPT !.rd = None]]
    ELSE [next |-> None, fwdSns |-> Get(newrd).sns,
          acc |-> [acc EXCEPT
                     !.rd = Some(d.uri),
                     !.rdInst = Get(newrd).inst,
                     !.l3ret = IF Get(newrd).inst = None
                                  \/ Get(Get(newrd).inst).ret = None
                               THEN acc.l3ret
                               ELSE retentionOf(Get(newrd).inst)]]

\* the bridge domain walked without recording its retention policy
walkBridgeDomain_noRetention(d, acc, newbd) ==
    IF newbd = None
    THEN [next |-> None, fwdSns |-> None, acc |-> [acc EXCEPT !.bd = None]]
    ELSE [next |-> Get(newbd).net, fwdSns |-> Get(newbd).sns,
          acc |-> [acc EXCEPT !.bd = Some(d.uri),
                              !.bdInst = Get(newbd).inst]]

\* case BridgeDomain::CLASS_ID
walkBridgeDomain(d, acc, newbd) ==
    IF newbd = None
    THEN [next |-> None, fwdSns |-> None, acc |-> [acc EXCEPT !.bd = None]]
    ELSE [next |-> Get(newbd).net, fwdSns |-> Get(newbd).sns,
          acc |-> [acc EXCEPT
                     !.bd = Some(d.uri),
                     !.bdInst = Get(newbd).inst,
                     !.l2ret = IF Get(newbd).inst = None
                                  \/ Get(Get(newbd).inst).ret = None
                               THEN acc.l2ret
                               ELSE retentionOf(Get(newbd).inst)]]

\* case FloodDomain::CLASS_ID
walkFloodDomain(d, acc, newfd) ==
    IF newfd = None
    THEN [next |-> None, fwdSns |-> None, acc |-> [acc EXCEPT !.fd = None]]
    ELSE [next |-> Get(newfd).net, fwdSns |-> Get(newfd).sns,
          acc |-> [acc EXCEPT
                     !.fd = Some(d.uri),
                     !.fdctx = IF Get(newfd).ctx THEN Some(d.uri) ELSE None]]

\* the switch on the class of the domain d; it has no default, so that
\* another class changes nothing and ends the walk
walkStep(d, acc) ==
    CASE d.cls = RoutingDomainClass ->
           walkRoutingDomain(d, acc, IF d.uri \in RDs THEN stRD[d.uri] ELSE None)
      [] d.cls = BridgeDomainClass ->
           walkBridgeDomain(d, acc, IF d.uri \in BDs THEN stBD[d.uri] ELSE None)
      [] d.cls = FloodDomainClass ->
           walkFloodDomain(d, acc, IF d.uri \in FDs THEN stFD[d.uri] ELSE None)
      [] OTHER -> [next |-> None, fwdSns |-> None, acc |-> acc]

\* the end of one iteration: the subnets of the domain join the subnet map
walkSubnets(step) ==
    [step.acc EXCEPT
       !.smap = MapUnion(step.acc.smap, resolveSubnetChildren(step.fwdSns))]

\* The walk up the chain of forwarding domains.  acc holds newrd, newbd,
\* newfd, ...; visited holds the domains already walked: reaching one of
\* them again means the loop never ends, which acc.diverged records.
RECURSIVE walkChain(_, _, _)
walkFrom(step, visited) == walkChain(step.next, walkSubnets(step), visited)

walkChain(domain, acc, visited) ==
    IF domain = None THEN acc
    ELSE IF Get(domain) \in visited THEN [acc EXCEPT !.diverged = TRUE]
    ELSE walkFrom(walkStep(Get(domain), acc), visited \cup {Get(domain)})

\* the vnid index once the encap id of the old instance context is erased
\* and that of the new one inserted
updateVnidMap(egURI, vm, oldInstCtx, newInstCtx) ==
    MapInsertIf(newInstCtx # None /\ Get(newInstCtx).encap # None,
                MapEraseIf(oldInstCtx # None /\ Get(oldInstCtx).encap # None,
                           vm, Get(oldInstCtx).encap),
                Get(newInstCtx).encap, egURI)

\* the comparison of the newly resolved state w with the stored state gs
groupStateChanged(egURI, gs, newInstCtx, w) ==
    \/ PtrNeq(Some(egURI), gs.epGroup)
    \/ PtrNeq(newInstCtx, gs.instContext)
    \/ PtrNeq(w.fd, gs.floodDomain)
    \/ PtrNeq(w.fdctx, gs.floodContext)
    \/ PtrNeq(w.bd, gs.bridgeDomain)
    \/ PtrNeq(w.rd, gs.routingDomain)
    \/ DOMAIN w.smap # {} \/ DOMAIN gs.subnet_map # {}
    \/ PtrNeq(w.bdInst, gs.instBDContext)
    \/ PtrNeq(w.rdInst, gs.instRDContext)
    \/ PtrNeq(w.l2ret, gs.l2EpRetPolicy)
    \/ PtrNeq(w.l3ret, gs.l3EpRetPolicy)

newGroupState(egURI, newInstCtx, w) ==
    [epGroup |-> Some(egURI), instContext |-> newInstCtx,
     floodDomain |-> w.fd, floodContext |-> w.fdctx,
     bridgeDomain |-> w.bd, routingDomain |-> w.rd,
     subnet_map |-> w.smap, instBDContext |-> w.bdInst,
     instRDContext |-> w.rdInst, l2EpRetPolicy |-> w.l2ret,
     l3EpRetPolicy |-> w.l3ret]

\* updateEPGDomains for a resolved group, w being the result of its walk
storeGroupState(egURI, gm, vm, epg, w) ==
    [gm |-> [gm EXCEPT ![egURI] = newGroupState(egURI, epg.inst, w)],
     vm |-> updateVnidMap(egURI, vm, gm[egURI].instContext, epg.inst),
     toRemove |-> FALSE,
     updated |-> groupStateChanged(egURI, gm[egURI], epg.inst, w),
     diverged |-> w.diverged]

resolvedEPGDomains(egURI, gm, vm, epg) ==
    storeGroupState(egURI, gm, vm, epg,
        walkChain(epg.net,
                  [rd |-> None, bd |-> None, fd |-> None, fdctx |-> None,
                   smap |-> resolveSubnetChildren(epg.sns),
                   bdInst |-> epg.inst, rdInst |-> epg.inst,
                   l2ret |-> None, l3ret |-> None, diverged |-> FALSE],
                  {}))

\* updateEPGDomains(egURI, toRemove) on the maps gm and vm: the maps it
\* leaves, toRemove, its return value, and whether the walk never ended
updateEPGDomains(egURI, gm, vm) ==
    IF stEpg[egURI] = None
    THEN [gm |-> gm, vm |-> vm, toRemove |-> TRUE, updated |-> TRUE,
          diverged |-> FALSE]
    ELSE resolvedEPGDomains(egURI, gm, vm, Get(stEpg[egURI]))

\* the turn of the loop keeping the entry of a group that is to be removed
afterGroup_keep(u, st, r) ==
    [gm |-> r.gm,
     vm |-> r.vm,
     notifyGroups |-> IF r.updated THEN st.notifyGroups \cup {u}
                      ELSE st.notifyGroups,
     diverged |-> st.diverged \/ r.diverged]

\* one turn of the loop of updateDomain: r is what updateEPGDomains
\* returned for the group u
afterGroup(u, st, r) ==
    [gm |-> IF r.toRemove THEN MapErase(r.gm, u) ELSE r.gm,
     vm |-> r.vm,
     notifyGroups |-> IF r.updated THEN st.notifyGroups \cup {u}
                      ELSE st.notifyGroups,
     diverged |-> st.diverged \/ r.diverged]

\* the loop of updateDomain over group_map, in iteration order `order`
RECURSIVE updateDomainLoop(_, _, _)
updateDomainLoop(order, i, st) ==
    IF i > Len(order) THEN st
    ELSE updateDomainLoop(order, i + 1,
             afterGroup(order[i], st,
                        updateEPGDomains(order[i], st.gm, st.vm)))

\* the routing domains of the external networks whose NAT EPG was notified
natRoutingDomains(notifyGroups) ==
    {Get(l3n_map[n].routingDomain) :
        n \in {m \in DOMAIN l3n_map :
                 \E u \in notifyGroups :
                    u \in DOMAIN nat_epg_l3_ext /\ m \in nat_epg_l3_ext[u]}}

\* notifyRds without the erase of the triggering uri
notifyRds_keep(uri, notifyGroups) == natRoutingDomains(notifyGroups)

\* notifyRds once notifyRds.erase(uri) has avoided updating twice
notifyRds(uri, notifyGroups) == natRoutingDomains(notifyGroups) \ {uri}

\* what updateDomain notifies once its loop has ended in st
domainNotifications(class_id, uri, st) ==
    [gm |-> st.gm, vm |-> st.vm, diverged |-> st.diverged,
     egNotif |-> st.notifyGroups,
     domNotif |-> (IF class_id # EpGroupClass THEN {<<class_id, uri>>}
                   ELSE {})
                  \cup {<<RoutingDomainClass, rd>> :
                          rd \in notifyRds(uri, st.notifyGroups)},
     domCalls |-> (IF class_id # EpGroupClass THEN 1 ELSE 0)
                  + Cardinality(notifyRds(uri, st.notifyGroups))]

\* updateDomain(class_id, uri) with the group map iterated in `order`
updateDomainResult(class_id, uri, gm0, order) ==
    domainNotifications(class_id, uri,
        updateDomainLoop(order, 1,
            [gm |-> gm0, vm |-> vnid_map, notifyGroups |-> {},
             diverged |-> FALSE]))

\* the group map once updateDomain has made sure an EpGroup has an entry
withGroupEntry(class_id, uri) ==
    IF class_id = EpGroupClass /\ uri \notin DOMAIN group_map
    THEN MapPut(group_map, uri, DefaultGroupState)
    ELSE group_map

TaskRecord(op, cls, uri, eg, dom, ct) ==
    [op |-> op, cls |-> cls, uri |-> uri,
     egNotif |-> eg, domNotif |-> dom, ctNotif |-> ct, sgNotif |-> {},
     domCalls |-> 0]

updateDomain(class_id, uri) ==
    \E gm0 \in {withGroupEntry(class_id, uri)} :
      \E order \in Perms(DOMAIN gm0) :
        \E r \in {updateDomainResult(class_id, uri, gm0, order)} :
            /\ ~r.diverged
            /\ group_map' = r.gm
            /\ vnid_map' = r.vm
            /\ lastTask' = [TaskRecord("updateDomain", class_id, uri,
                                       r.egNotif, r.domNotif, {})
                               EXCEPT !.domCalls = r.domCalls]

\* the public queries
getVnidForGroup(eg) ==
    IF eg \in DOMAIN group_map /\ group_map[eg].instContext # None
       /\ Get(group_map[eg].instContext).encap # None
    THEN Get(group_map[eg].instContext).encap
    ELSE None

getGroupForVnid(vnid) ==
    IF vnid \in DOMAIN vnid_map THEN Some(vnid_map[vnid]) ELSE None

getRDForGroup(eg) ==
    IF eg \notin DOMAIN group_map THEN None ELSE group_map[eg].routingDomain

getBDForGroup(eg) ==
    IF eg \notin DOMAIN group_map THEN None ELSE group_map[eg].bridgeDomain

getFDForGroup(eg) ==
    IF eg \notin DOMAIN group_map THEN None ELSE group_map[eg].floodDomain

\* what a query returns, or that it has not returned: the process has
\* stopped on a failed assertion
Returned(value) == [aborted |-> FALSE, value |-> value]
Aborted == [aborted |-> TRUE, value |-> None]

\* policy.get() ? policy : none, policy being the optional of the group
\* state: get() of an optional without value is undefined, an assertion
\* fails where assertions are compiled in, and elsewhere either branch of
\* the conditional returns an optional without value
getRetentionPolicy(policy) ==
    IF policy = None THEN {Returned(None), Aborted} ELSE {Returned(policy)}

\* the outcomes of getL2EPRetentionPolicyForGroup(eg)
getL2EPRetentionPolicyForGroup(eg) ==
    IF eg \notin DOMAIN group_map THEN {Returned(None)}
    ELSE getRetentionPolicy(group_map[eg].l2EpRetPolicy)

\* the outcomes of getL3EPRetentionPolicyForGroup(eg)
getL3EPRetentionPolicyForGroup(eg) ==
    IF eg \notin DOMAIN group_map THEN {Returned(None)}
    ELSE getRetentionPolicy(group_map[eg].l3EpRetPolicy)

\* the values an optional<uint32_t> read through a pointer to nothing may
\* turn out to hold
StrayVnids == {None} \cup {Some(e) : e \in Encaps \cup {MaxEncap + 1}}

\* the outcomes of getBDVnidForGroup(eg): the guard tests instBDContext and
\* the value is read from instContext; get() of an instContext without
\* value is undefined: an assertion fails, or whatever lies there is read
getBDVnidForGroup(eg) ==
    IF eg \notin DOMAIN group_map \/ group_map[eg].instBDContext = None
    THEN {Returned(None)}
    ELSE IF group_map[eg].instContext = None
    THEN {Aborted} \cup {Returned(v) : v \in StrayVnids}
    ELSE {Returned(Get(group_map[eg].instContext).encap)}

\* getRDVnidForGroup reading instContext where the source reads
\* instRDContext
getRDVnidForGroup_inst(eg) ==
    IF eg \in DOMAIN group_map /\ group_map[eg].instRDContext # None
       /\ group_map[eg].instContext # None
    THEN {Returned(Get(group_map[eg].instContext).encap)}
    ELSE {Returned(None)}

\* the outcomes of getRDVnidForGroup(eg): guard and value are those of
\* instRDContext
getRDVnidForGroup(eg) ==
    IF eg \in DOMAIN group_map /\ group_map[eg].instRDContext # None
    THEN {Returned(Get(group_map[eg].instRDContext).encap)}
    ELSE {Returned(None)}

----------------------------------------------------------------------------
(* Addresses and subnets *)

\* the text of an IP address: the numbers between its dots, or between its
\* colons
IpText(fam, fields) == [fam |-> fam, fields |-> fields]

\* the bytes of the 16-bit groups of an IPv6 address, most significant first
RECURSIVE groupBytes(_, _)
groupBytes(fields, i) ==
    IF i > Len(fields) THEN <<>>
    ELSE <<fields[i] \div 256, fields[i] % 256>> \o groupBytes(fields, i + 1)

\* boost::asio::ip::address::from_string: the address the text stands for,
\* none when it stands for none (ec is set)
address_from_string(text) ==
    IF text.fam = "dotted"
    THEN IF Len(text.fields) = 4
            /\ \A i \in 1..Len(text.fields) : text.fields[i] \in 0..255
         THEN Some([v6 |-> FALSE, bytes |-> text.fields])
         ELSE None
    ELSE IF Len(text.fields) = 8
            /\ \A i \in 1..Len(text.fields) : text.fields[i] \in 0..65535
         THEN Some([v6 |-> TRUE, bytes |-> groupBytes(text.fields, 1)])
         ELSE None

\* the number of bits of byte i that a mask of prefixLen leading ones covers
maskBits(i, prefixLen) ==
    IF prefixLen >= 8 * i THEN 8
    ELSE IF prefixLen <= 8 * (i - 1) THEN 0
    ELSE prefixLen - 8 * (i - 1)

\* addr & mask, byte by byte, for the mask of prefixLen leading ones
maskedBytes(bytes, prefixLen) ==
    [i \in 1..Len(bytes) |->
        (bytes[i] \div 2 ^ (8 - maskBits(i, prefixLen)))
            * 2 ^ (8 - maskBits(i, prefixLen))]

\* a gbp::Subnet object: its URI and its optional address and prefixLen
SubnetObj(uri, address, prefixLen) ==
    [uri |-> uri, address |-> address, prefixLen |-> prefixLen]

\* network::mask_address(addr, prefixLen): the address with the bits
\* beyond the prefix cleared, the prefix being at most the width of the
\* address
addressBits(addr) == IF addr.v6 THEN 128 ELSE 32
mask_address(addr, prefixLen) ==
    [v6 |-> addr.v6,
     bytes |-> maskedBytes(addr.bytes,
                           IF prefixLen > addressBits(addr)
                           THEN addressBits(addr) ELSE prefixLen)]

\* address::to_string: the text of an address, an IPv6 address with its
\* eight groups written out
to_string(addr) ==
    IF addr.v6
    THEN IpText("colon", [g \in 1..8 |->
                            addr.bytes[2 * g - 1] * 256 + addr.bytes[2 * g]])
    ELSE IpText("dotted", addr.bytes)

\* the body of the loop of resolveSubnets: what one subnet adds to
\* subnets_out
resolvedSubnet(subnet) ==
    IF subnet.address = None \/ subnet.prefixLen = None THEN {}
    ELSE IF address_from_string(Get(subnet.address)) = None THEN {}
    ELSE {<<to_string(mask_address(
                Get(address_from_string(Get(subnet.address))),
                Get(subnet.prefixLen))),
            Get(subnet.prefixLen)>>}

\* PolicyManager::resolveSubnets(subnets_uri, subnets_out)
resolveSubnets(subnets_uri, subnets_out) ==
    IF subnets_uri = None THEN subnets_out
    ELSE IF stAux.subnets[Get(subnets_uri)] = None THEN subnets_out
    ELSE subnets_out
         \cup UNION {resolvedSubnet(subnet) :
                        subnet \in Get(stAux.subnets[Get(subnets_uri)])}

\* resolveRemoteSubnets<SecGroupRule>: the loop over the remote-address
\* relations of the rule, each an optional target URI.  A gbp::Rule has no
\* such relation and gets no remote subnet
RECURSIVE resolveRemoteSubnetsLoop(_, _, _)
resolveRemoteSubnetsLoop(raSrcs, i, remoteSubnets) ==
    IF i > Len(raSrcs) THEN remoteSubnets
    ELSE resolveRemoteSubnetsLoop(raSrcs, i + 1,
            resolveSubnets(raSrcs[i], remoteSubnets))

resolveRemoteSubnets(rule) == resolveRemoteSubnetsLoop(rule.remote, 1, {})

----------------------------------------------------------------------------
(* Rule compiler: updatePolicyRules<Contract, Subject, Rule> *)

MAX_POLICY_RULE_PRIORITY == 8192
RulePrioStep == 128
ClsPrioMax == 127
UINT16_MOD == 65536
\* a uint32_t, which is beyond the integers of the model checker, as its
\* two 16-bit halves, the upper first; the order attributes of the store
\* are integers of the model checker
uint32(n) == <<n \div UINT16_MOD, n % UINT16_MOD>>
UINT32_MAX == <<UINT16_MOD - 1, UINT16_MOD - 1>>
uint32Less(a, b) == a[1] < b[1] \/ (a[1] = b[1] /\ a[2] < b[2])

\* A rule of the store: its order attribute, its optional direction, its
\* RuleToClassifierRSrc relations and its RuleToActionRSrc relations.
\* A classifier relation is [ok, obj]: ok when its target is set and of
\* class L24Classifier, obj what L24Classifier::resolve returns for it, a
\* classifier [uri, order].  An action relation is [set, kind, obj]: set
\* when its target is set, kind the target class, obj what resolve returns.
RuleObj(order, dir, cls, acts) ==
    [order |-> order, dir |-> dir, cls |-> cls, acts |-> acts,
     remote |-> <<>>]
\* a gbp::SecGroupRule: a rule with remote-address relations, each an
\* optional target URI of a Subnets object
SecGroupRuleObj(order, dir, cls, acts, remote) ==
    [order |-> order, dir |-> dir, cls |-> cls, acts |-> acts,
     remote |-> remote]
ClsRel(ok, obj) == [ok |-> ok, obj |-> obj]
Classifier(uri, order) == [uri |-> uri, order |-> order]
ActRel(set, kind, obj) == [set |-> set, kind |-> kind, obj |-> obj]
\* an AllowDenyAction: its optional order and allow attributes
AllowDenyObj(order, allow) == [order |-> order, allow |-> allow]
\* a RedirectAction: its optional RedirectActionToDestGrpRSrc child, which
\* has an optional target URI
RedirectObj(destRef) == [destRef |-> destRef]

PolicyRule(dir, prio, c, allow, remoteSubnets, redirect, redirGrp) ==
    [dir |-> dir, prio |-> prio, cls |-> c, allow |-> allow,
     remoteSubnets |-> remoteSubnets, redirect |-> redirect,
     redirGrp |-> redirGrp]

\* operator==(PolicyRule, PolicyRule)
PolicyRule_eq(lhs, rhs) ==
    /\ lhs.dir = rhs.dir
    /\ lhs.allow = rhs.allow
    /\ lhs.remoteSubnets = rhs.remoteSubnets
    /\ lhs.cls = rhs.cls
    /\ lhs.redirGrp = rhs.redirGrp

\* OrderComparator: ascending by the order attribute
OrderComparator(a, b) == a.order < b.order

\* std::stable_sort, as an insertion sort that puts x behind every element
\* that is not greater than it; out holds the elements sorted so far
RECURSIVE insertStable(_, _, _)
insertStable(x, s, i) ==
    IF i > Len(s) THEN Append(s, x)
    ELSE IF OrderComparator(x, s[i])
         THEN SubSeq(s, 1, i - 1) \o <<x>> \o SubSeq(s, i, Len(s))
         ELSE insertStable(x, s, i + 1)

RECURSIVE stableSortLoop(_, _)
stableSortLoop(s, out) ==
    IF Len(out) >= Len(s) THEN out
    ELSE stableSortLoop(s, insertStable(s[Len(out) + 1], out, 1))

stable_sort(s) == stableSortLoop(s, <<>>)

\* the classifiers of a rule: what the relations whose target is set and is
\* an L24Classifier resolve to, in relation order
targetsClassifier(r) == r.ok /\ r.obj # None
resolvedClassifiers(rels) == [i \in 1..Len(rels) |-> Get(rels[i].obj)]
resolveClassifiers(clsRel) ==
    resolvedClassifiers(SelectSeq(clsRel, targetsClassifier))

\* act.getOrder(UINT32_MAX-1) and act.getAllow(0)
actOrder(act) ==
    IF act.order = None THEN <<UINT16_MOD - 1, UINT16_MOD - 2>>
    ELSE uint32(Get(act.order))
actAllow(act) == IF act.allow = None THEN 0 ELSE Get(act.allow)

\* one AllowDenyAction relation
applyAllowDeny(st, r) ==
    IF r.obj # None /\ uint32Less(actOrder(Get(r.obj)), st.minOrder)
    THEN [st EXCEPT !.minOrder = actOrder(Get(r.obj)),
                    !.ruleAllow = (actAllow(Get(r.obj)) # 0)]
    ELSE st

\* one RedirectAction relation
applyRedirect(st, r) ==
    IF r.obj = None \/ Get(r.obj).destRef = None
    THEN [st EXCEPT !.ruleRedirect = TRUE, !.ruleAllow = FALSE]
    ELSE IF Get(Get(r.obj).destRef).target = None
    THEN [st EXCEPT !.ruleRedirect = TRUE, !.ruleAllow = FALSE,
                    !.destGrpUri = None]
    ELSE [st EXCEPT !.ruleRedirect = TRUE, !.ruleAllow = FALSE,
                    !.destGrpUri = Get(Get(r.obj).destRef).target,
                    !.newRedirGrps = @ \cup Get(Get(r.obj).destRef).target]

\* the body of the loop over the action relations of a rule
applyAction(st, r) ==
    IF ~r.set THEN st
    ELSE IF r.kind = "AllowDenyAction" THEN applyAllowDeny(st, r)
    ELSE IF r.kind = "RedirectAction" THEN applyRedirect(st, r)
    ELSE st

\* the loop over the action relations of a rule; st.i is its iterator
RECURSIVE compileActions(_, _)
compileActions(actRel, st) ==
    IF st.i > Len(actRel) THEN st
    ELSE compileActions(actRel,
            [applyAction(st, actRel[st.i]) EXCEPT !.i = @ + 1])

ruleActions(rule) ==
    compileActions(rule.acts,
        [i |-> 1, ruleAllow |-> TRUE, ruleRedirect |-> FALSE,
         minOrder |-> UINT32_MAX, destGrpUri |-> None, newRedirGrps |-> {}])

\* the loop over the classifiers of a rule with a classifier priority that
\* keeps rising
RECURSIVE emitClassifiers_noCap(_, _, _, _, _, _)
emitClassifiers_noCap(classifiers, dir, rulePrio, act, remoteSubnets, st) ==
    IF st.j > Len(classifiers) THEN st.newRules
    ELSE emitClassifiers_noCap(classifiers, dir, rulePrio, act, remoteSubnets,
            [j |-> st.j + 1,
             clsPrio |-> st.clsPrio + 1,
             newRules |->
                Append(st.newRules,
                       PolicyRule(dir, (rulePrio - st.clsPrio) % UINT16_MOD,
                                  classifiers[st.j].uri, act.ruleAllow,
                                  remoteSubnets,
                                  act.ruleRedirect, act.destGrpUri))])

\* the loop that emits one PolicyRule per classifier of a rule; st holds
\* its iterator j, clsPrio and newRules
RECURSIVE emitClassifiers(_, _, _, _, _, _)
emitClassifiers(classifiers, dir, rulePrio, act, remoteSubnets, st) ==
    IF st.j > Len(classifiers) THEN st.newRules
    ELSE emitClassifiers(classifiers, dir, rulePrio, act, remoteSubnets,
            [j |-> st.j + 1,
             clsPrio |-> IF st.clsPrio < ClsPrioMax
                         THEN st.clsPrio + 1 ELSE st.clsPrio,
             newRules |->
                Append(st.newRules,
                       PolicyRule(dir, (rulePrio - st.clsPrio) % UINT16_MOD,
                                  classifiers[st.j].uri, act.ruleAllow,
                                  remoteSubnets,
                                  act.ruleRedirect, act.destGrpUri))])

\* the body of the loop over the rules without the step of the rule priority
compileRule_noStep(rule, st, act) ==
    [i |-> st.i + 1,
     newRules |-> emitClassifiers(
                      stable_sort(resolveClassifiers(rule.cls)),
                      Get(rule.dir), st.rulePrio, act,
                      resolveRemoteSubnets(rule),
                      [j |-> 1, clsPrio |-> 0, newRules |-> st.newRules]),
     newRedirGrps |-> st.newRedirGrps \cup act.newRedirGrps,
     rulePrio |-> st.rulePrio]

\* the body of the loop over the rules of a subject, for a rule that has a
\* direction: st holds the iterator i, newRules, newRedirGrps and rulePrio
compileRule(rule, st, act) ==
    [i |-> st.i + 1,
     newRules |-> emitClassifiers(
                      stable_sort(resolveClassifiers(rule.cls)),
                      Get(rule.dir), st.rulePrio, act,
                      resolveRemoteSubnets(rule),
                      [j |-> 1, clsPrio |-> 0, newRules |-> st.newRules]),
     newRedirGrps |-> st.newRedirGrps \cup act.newRedirGrps,
     rulePrio |-> IF st.rulePrio > RulePrioStep
                  THEN st.rulePrio - RulePrioStep ELSE st.rulePrio]

\* the loop over the rules of a subject stepping the rule priority down
\* for a rule without direction too
RECURSIVE compileRules_countUndirected(_, _)
compileRules_countUndirected(rules, st) ==
    IF st.i > Len(rules) THEN st
    ELSE compileRules_countUndirected(rules,
            IF rules[st.i].dir = None
            THEN [st EXCEPT !.i = @ + 1,
                            !.rulePrio = IF @ > RulePrioStep
                                         THEN @ - RulePrioStep ELSE @]
            ELSE compileRule(rules[st.i], st, ruleActions(rules[st.i])))

\* the loop over the rules of a subject
RECURSIVE compileRules(_, _)
compileRules(rules, st) ==
    IF st.i > Len(rules) THEN st
    ELSE compileRules(rules,
            IF rules[st.i].dir = None THEN [st EXCEPT !.i = @ + 1]
            ELSE compileRule(rules[st.i], st, ruleActions(rules[st.i])))

\* the body of the loop over the subjects of the parent: st holds the
\* iterator s, newRules and newRedirGrps
subjectResult(st, r) ==
    [s |-> st.s + 1, newRules |-> r.newRules, newRedirGrps |-> r.newRedirGrps]

compileSubject(sub, st) ==
    subjectResult(st,
        compileRules(stable_sort(sub),
            [i |-> 1, newRules |-> st.newRules,
             newRedirGrps |-> st.newRedirGrps,
             rulePrio |-> MAX_POLICY_RULE_PRIORITY]))

RECURSIVE compileSubjects(_, _)
compileSubjects(subjects, st) ==
    IF st.s > Len(subjects) THEN st
    ELSE compileSubjects(subjects, compileSubject(subjects[st.s], st))

\* li->get() == ri->get(): two rules are the same when they are the same
\* object, and every compiled rule is an object of its own
sameRuleObject(oldRule, newRule) == FALSE

\* the comparison of the stored list with the compiled one
RECURSIVE rulesDiffer(_, _, _)
rulesDiffer(oldRules, newRules, i) ==
    IF i > Len(oldRules) \/ i > Len(newRules)
    THEN i <= Len(oldRules) \/ i <= Len(newRules)
    ELSE IF sameRuleObject(oldRules[i], newRules[i])
         THEN rulesDiffer(oldRules, newRules, i + 1)
         ELSE TRUE

redirGrpsOf(rules) ==
    UNION {rules[i].redirGrp : i \in 1..Len(rules)}

\* the end of updatePolicyRules: c holds newRules and newRedirGrps
finishPolicyRules(oldRules, c, updated) ==
    [notFound |-> FALSE, updated |-> updated,
     rules |-> IF updated THEN c.newRules ELSE oldRules,
     oldRedirGrps |-> redirGrpsOf(oldRules),
     newRedirGrps |-> c.newRedirGrps]

comparePolicyRules(oldRules, c) ==
    finishPolicyRules(oldRules, c, rulesDiffer(oldRules, c.newRules, 1))

\* updatePolicyRules(parentURI, notFound, oldRules, oldRedirGrps,
\* newRedirGrps), parent being what Parent::resolve returned: an optional
\* sequence of subjects, each a sequence of rules
updatePolicyRules(parent, oldRules) ==
    IF parent = None
    THEN [notFound |-> TRUE, updated |-> FALSE, rules |-> oldRules,
          oldRedirGrps |-> {}, newRedirGrps |-> {}]
    ELSE comparePolicyRules(oldRules,
             compileSubjects(Get(parent),
                 [s |-> 1, newRules |-> <<>>, newRedirGrps |-> {}]))

----------------------------------------------------------------------------
(* Contract indexer: updateGroupContracts, updateContracts *)

\* an L3ExternalNetwork object: its optional L3ExternalNetworkToNatEPGroupRSrc
\* child, a record with an optional target, and the targets of its contract
\* relations
L3ExternalNetworkObj(nat, prov, cons) ==
    [nat |-> nat, prov |-> prov, cons |-> cons]
NatRef(target) == [target |-> target]

DefaultContractState ==
    [providerGroups |-> {}, consumerGroups |-> {}, intraGroups |-> {},
     rules |-> <<>>]
DefaultGroupContractState ==
    [contractsProvided |-> {}, contractsConsumed |-> {}, contractsIntra |-> {}]
DefaultRedirectDestGrpState ==
    [redirDstList |-> <<>>, hashAlgo |-> 0, resilientHashEnabled |-> 0,
     ctrctSet |-> {}]

\* contractMap[u], groupContractMap[g], redirGrpMap[u]: operator[] makes a
\* default entry for a key that has none
contractAt(cm, u) == IF u \in DOMAIN cm THEN cm[u] ELSE DefaultContractState
groupContractAt(gcm, g) ==
    IF g \in DOMAIN gcm THEN gcm[g] ELSE DefaultGroupContractState
redirGrpAt(rgm, u) ==
    IF u \in DOMAIN rgm THEN rgm[u] ELSE DefaultRedirectDestGrpState

noGroups(cs) ==
    cs.providerGroups = {} /\ cs.consumerGroups = {} /\ cs.intraGroups = {}

\* removeContractIfRequired without the test of the three sets
removeContractIfRequired_anyGroups(cm, contractURI) ==
    IF stContract[contractURI] = None /\ contractURI \in DOMAIN cm
    THEN MapErase(cm, contractURI)
    ELSE cm

removeContractIfRequired(cm, contractURI) ==
    IF /\ stContract[contractURI] = None
       /\ contractURI \in DOMAIN cm
       /\ noGroups(cm[contractURI])
    THEN MapErase(cm, contractURI)
    ELSE cm

\* contractMap[u].<field>.insert(groupURI) for every u of added
RECURSIVE insertGroup(_, _, _, _)
insertGroupAt(cm, u, added, field, groupURI) ==
    insertGroup(MapPut(cm, u, [contractAt(cm, u) EXCEPT
                                 ![field] = @ \cup {groupURI}]),
                added \ {u}, field, groupURI)
insertGroup(cm, added, field, groupURI) ==
    IF added = {} THEN cm
    ELSE insertGroupAt(cm, CHOOSE u \in added : TRUE, added, field, groupURI)

\* contractMap[u].<field>.erase(groupURI); removeContractIfRequired(u) for
\* every u of removed
RECURSIVE eraseGroup(_, _, _, _)
eraseGroupAt(cm, u, removed, field, groupURI) ==
    eraseGroup(removeContractIfRequired(
                   MapPut(cm, u, [contractAt(cm, u) EXCEPT
                                    ![field] = @ \ {groupURI}]), u),
               removed \ {u}, field, groupURI)
eraseGroup(cm, removed, field, groupURI) ==
    IF removed = {} THEN cm
    ELSE eraseGroupAt(cm, CHOOSE u \in removed : TRUE, removed, field,
                      groupURI)

\* what the group refers to in the store, when it resolves
resolveGroupContracts(groupType, groupURI) ==
    IF groupType = EpGroupClass
    THEN IF stEpg[groupURI] = None THEN None
         ELSE Some([contractsProvided |-> Get(stEpg[groupURI]).prov,
                    contractsConsumed |-> Get(stEpg[groupURI]).cons,
                    contractsIntra |-> Get(stEpg[groupURI]).intra])
    ELSE IF groupType = L3ExternalNetworkClass
    THEN IF stNet[groupURI] = None THEN None
         ELSE Some([contractsProvided |-> Get(stNet[groupURI]).prov,
                    contractsConsumed |-> Get(stNet[groupURI]).cons,
                    contractsIntra |-> {}])
    ELSE None

\* the six loops over the added and the removed contracts
applyContractDiff(cm, groupURI, olds, news) ==
    eraseGroup(
      eraseGroup(
        eraseGroup(
          insertGroup(
            insertGroup(
              insertGroup(cm,
                          news.contractsProvided \ olds.contractsProvided,
                          "providerGroups", groupURI),
              news.contractsConsumed \ olds.contractsConsumed,
              "consumerGroups", groupURI),
            news.contractsIntra \ olds.contractsIntra,
            "intraGroups", groupURI),
          olds.contractsProvided \ news.contractsProvided,
          "providerGroups", groupURI),
        olds.contractsConsumed \ news.contractsConsumed,
        "consumerGroups", groupURI),
      olds.contractsIntra \ news.contractsIntra,
      "intraGroups", groupURI)

contractDiff(olds, news) ==
    (news.contractsProvided \ olds.contractsProvided)
    \cup (olds.contractsProvided \ news.contractsProvided)
    \cup (news.contractsConsumed \ olds.contractsConsumed)
    \cup (olds.contractsConsumed \ news.contractsConsumed)
    \cup (news.contractsIntra \ olds.contractsIntra)
    \cup (olds.contractsIntra \ news.contractsIntra)

\* the group does not resolve: everything it referred to is removed and its
\* entry is erased
removeGroupContracts(groupURI, st, gcs) ==
    [st EXCEPT
       !.cm = applyContractDiff(st.cm, groupURI, gcs,
                                DefaultGroupContractState),
       !.gcm = MapErase(st.gcm, groupURI),
       !.updatedContracts = @ \cup contractDiff(gcs, DefaultGroupContractState)]

\* the group resolves and refers to news
diffGroupContracts(groupURI, st, gcs, news) ==
    [st EXCEPT
       !.cm = applyContractDiff(st.cm, groupURI, gcs, news),
       !.gcm = MapPut(st.gcm, groupURI, news),
       !.updatedContracts = @ \cup contractDiff(gcs, news)]

refreshGroupContracts(groupURI, st, gcs, news) ==
    IF news = None
    THEN removeGroupContracts(groupURI, st, gcs)
    ELSE diffGroupContracts(groupURI, st, gcs, Get(news))

\* updateGroupContracts(groupType, groupURI, updatedContracts): st holds
\* contractMap as cm, groupContractMap as gcm, and updatedContracts
updateGroupContracts(groupType, groupURI, st) ==
    refreshGroupContracts(groupURI, st, groupContractAt(st.gcm, groupURI),
                          resolveGroupContracts(groupType, groupURI))

\* redirGrpMap[u].ctrctSet.erase(contrURI) for the groups that have an entry
eraseCtrct(rgm, oldRedirGrps, contrURI) ==
    [u \in DOMAIN rgm |->
        IF u \in oldRedirGrps
        THEN [rgm[u] EXCEPT !.ctrctSet = @ \ {contrURI}]
        ELSE rgm[u]]

\* redirGrpMap[u].ctrctSet.insert(contrURI)
insertCtrct(rgm, newRedirGrps, contrURI) ==
    [u \in DOMAIN rgm \cup newRedirGrps |->
        IF u \in newRedirGrps
        THEN [redirGrpAt(rgm, u) EXCEPT !.ctrctSet = @ \cup {contrURI}]
        ELSE rgm[u]]

contractRulesResult(contrURI, cm, rgm, r) ==
    [cm |-> MapPut(cm, contrURI,
                   [contractAt(cm, contrURI) EXCEPT !.rules = r.rules]),
     rgm |-> insertCtrct(eraseCtrct(rgm, r.oldRedirGrps, contrURI),
                         r.newRedirGrps, contrURI),
     updated |-> r.updated, notFound |-> r.notFound]

updateContractRules(contrURI, cm, rgm) ==
    contractRulesResult(contrURI, cm, rgm,
        updatePolicyRules(stContract[contrURI],
                          contractAt(cm, contrURI).rules))

\* the loop body of updateContracts without the erase
afterContractRules_keepAll(u, st, r) ==
    [cm |-> IF ~r.notFound THEN r.cm
            ELSE MapPut(r.cm, u, [r.cm[u] EXCEPT !.rules = <<>>]),
     rgm |-> r.rgm,
     contractsToNotify |->
        IF r.updated \/ r.notFound
        THEN st.contractsToNotify \cup {u} ELSE st.contractsToNotify]

\* the loop body of updateContracts erasing every contract it cannot resolve
afterContractRules_eraseAll(u, st, r) ==
    [cm |-> IF ~r.notFound THEN r.cm ELSE MapErase(r.cm, u),
     rgm |-> r.rgm,
     contractsToNotify |->
        IF r.updated \/ r.notFound
        THEN st.contractsToNotify \cup {u} ELSE st.contractsToNotify]

\* the body of the loop of updateContracts for the entry of u, r being what
\* updateContractRules returned
afterContractRules(u, st, r) ==
    [cm |-> IF ~r.notFound THEN r.cm
            ELSE IF noGroups(r.cm[u]) THEN MapErase(r.cm, u)
            ELSE MapPut(r.cm, u, [r.cm[u] EXCEPT !.rules = <<>>]),
     rgm |-> r.rgm,
     contractsToNotify |->
        IF r.updated \/ r.notFound
        THEN st.contractsToNotify \cup {u} ELSE st.contractsToNotify]

RECURSIVE updateContractsLoop(_, _, _)
updateContractsLoop(order, i, st) ==
    IF i > Len(order) THEN st
    ELSE updateContractsLoop(order, i + 1,
            afterContractRules(order[i], st,
                updateContractRules(order[i], st.cm, st.rgm)))

\* updateContracts(), the loop visiting the entries of contractMap in order
updateContractsResult(order) ==
    updateContractsLoop(order, 1,
        [cm |-> contractMap, rgm |-> redirGrpMap, contractsToNotify |-> {}])

----------------------------------------------------------------------------
(* Security groups: updateSecGrps *)

\* updateSecGrpRules(secGrpURI, notFound) on secGrpMap sm: the entry of a
\* security group is its rule list
updateSecGrpRules(secGrpURI, sm, r) ==
    [notFound |-> r.notFound, updated |-> r.updated,
     sm |-> MapPut(sm, secGrpURI, r.rules)]

\* the loop body keeping the entry of a security group that is not found
afterSecGrpRules_keep(u, st, r) ==
    [sm |-> r.sm,
     toNotify |-> IF r.updated \/ r.notFound
                  THEN st.toNotify \cup {u} ELSE st.toNotify]

\* the body of the loop of updateSecGrps for the entry of u, r being what
\* updateSecGrpRules returned
afterSecGrpRules(u, st, r) ==
    [sm |-> IF r.notFound THEN MapErase(r.sm, u) ELSE r.sm,
     toNotify |-> IF r.updated \/ r.notFound
                  THEN st.toNotify \cup {u} ELSE st.toNotify]

RECURSIVE updateSecGrpsLoop(_, _, _)
updateSecGrpsLoop(order, i, st) ==
    IF i > Len(order) THEN st
    ELSE updateSecGrpsLoop(order, i + 1,
            afterSecGrpRules(order[i], st,
                updateSecGrpRules(order[i], st.sm,
                    updatePolicyRules(stSecGrp[order[i]], st.sm[order[i]]))))

\* updateSecGrps(), the loop visiting the entries of secGrpMap in order
updateSecGrpsResult(order) ==
    updateSecGrpsLoop(order, 1, [sm |-> secGrpMap, toNotify |-> {}])

----------------------------------------------------------------------------
(* External networks: updateL3Nets *)

\* the routing domain an external network is a descendant of: the URI of a
\* network extends the URI of its routing domain
NetParent(n) == IF n = "n3" THEN "rd2" ELSE "rd1"

DefaultRoutingDomainState == [extNets |-> {}]
DefaultL3NetworkState == [routingDomain |-> None, natEpg |-> None]

l3NetAt(l3m, n) == IF n \in DOMAIN l3m THEN l3m[n] ELSE DefaultL3NetworkState

\* it->second.erase(net); the slot is erased when it is left empty
natErase(nat, e, n) ==
    IF e \notin DOMAIN nat THEN nat
    ELSE IF nat[e] \ {n} = {} THEN MapErase(nat, e)
    ELSE MapPut(nat, e, nat[e] \ {n})

\* nat_epg_l3_ext[e].insert(net)
natInsert(nat, e, n) ==
    MapPut(nat, e, (IF e \in DOMAIN nat THEN nat[e] ELSE {}) \cup {n})

\* the NAT group the network entry holds once the network object was read
nextNatEpg(l3s, natRef) ==
    IF natRef = None THEN None
    ELSE IF Get(natRef).target = None THEN l3s.natEpg
    ELSE Get(natRef).target

natAfterAttach(nat, l3s, natRef, n) ==
    IF natRef # None /\ Get(natRef).target # None
    THEN natInsert(IF l3s.routingDomain # None /\ l3s.natEpg # None
                   THEN natErase(nat, Get(l3s.natEpg), n) ELSE nat,
                   Get(Get(natRef).target), n)
    ELSE IF l3s.routingDomain # None /\ l3s.natEpg # None
         THEN natErase(nat, Get(l3s.natEpg), n) ELSE nat

\* the body of the loop over the networks of a routing domain that resolves
attachNet(rdURI, n, st) ==
    updateGroupContracts(L3ExternalNetworkClass, n,
        [st EXCEPT
           !.l3m = MapPut(st.l3m, n,
                      [routingDomain |-> Some(rdURI),
                       natEpg |-> nextNatEpg(l3NetAt(st.l3m, n),
                                             Get(stNet[n]).nat)]),
           !.nat = natAfterAttach(st.nat, l3NetAt(st.l3m, n),
                                  Get(stNet[n]).nat, n)])

RECURSIVE attachNets(_, _, _, _)
attachNets(rdURI, order, i, st) ==
    IF i > Len(order) THEN st
    ELSE attachNets(rdURI, order, i + 1, attachNet(rdURI, order[i], st))

\* the body of the loop over the networks the routing domain has lost; the
\* network has an entry in l3n_map, which it got when it joined extNets
detachNet(n, st) ==
    updateGroupContracts(L3ExternalNetworkClass, n,
        [st EXCEPT
           !.l3m = MapErase(st.l3m, n),
           !.nat = IF n \in DOMAIN st.l3m /\ st.l3m[n].natEpg # None
                   THEN natErase(st.nat, Get(st.l3m[n].natEpg), n)
                   ELSE st.nat])

RECURSIVE detachNets(_, _, _, _)
detachNets(newNets, order, i, st) ==
    IF i > Len(order) THEN st
    ELSE detachNets(newNets, order, i + 1,
            IF order[i] \in newNets THEN st ELSE detachNet(order[i], st))

\* the loop body for a routing domain that does not resolve, without the
\* erase of the network entry
dropNet_keepEntry(n, st) ==
    updateGroupContracts(L3ExternalNetworkClass, n, st)

\* the body of the loop over the networks of a routing domain that does not
\* resolve
dropNet(n, st) ==
    updateGroupContracts(L3ExternalNetworkClass, n,
        [st EXCEPT !.l3m = MapErase(st.l3m, n)])

RECURSIVE dropNets(_, _, _)
dropNets(order, i, st) ==
    IF i > Len(order) THEN st
    ELSE dropNets(order, i + 1, dropNet(order[i], st))

\* resolveGbpL3ExternalDomain, resolveGbpL3ExternalNetwork: the networks of
\* the store below the routing domain
resolveL3ExternalNetworks(rdURI) ==
    {n \in Nets : NetParent(n) = rdURI /\ stNet[n] # None}

rdExtNets(rdURI) ==
    IF rdURI \in DOMAIN rd_map THEN rd_map[rdURI].extNets ELSE {}

l3State(updatedContracts) ==
    [cm |-> contractMap, gcm |-> groupContractMap, l3m |-> l3n_map,
     nat |-> nat_epg_l3_ext, updatedContracts |-> updatedContracts]

\* updateL3Nets(rdURI, contractsToNotify): extNets lists the networks below
\* the routing domain in the order the store returns them, oldNets the
\* members of rds.extNets in the order the set iterates them.  The result
\* holds contractMap, groupContractMap, l3n_map, nat_epg_l3_ext and the
\* contracts to notify; updateL3NetsRds is the rd_map left behind.
updateL3Nets(rdURI, extNets, oldNets) ==
    IF stRD[rdURI] # None
    THEN detachNets({extNets[i] : i \in 1..Len(extNets)}, oldNets, 1,
                    attachNets(rdURI, extNets, 1, l3State({})))
    ELSE dropNets(oldNets, 1, l3State({}))

updateL3NetsRds(rdURI) ==
    IF stRD[rdURI] # None
    THEN MapPut(rd_map, rdURI, [extNets |-> resolveL3ExternalNetworks(rdURI)])
    ELSE MapErase(rd_map, rdURI)

----------------------------------------------------------------------------
(* Redirect groups: updateRedirectDestGroup, getPolicyDestGroup *)

\* HashingAlgorithmEnumT::CONST_SYMMETRIC and the default of
\* getResilientHashEnabled
CONST_SYMMETRIC == 0
ResilientHashDefault == 1

\* a RedirectDestGroup object: its optional hashAlgo and
\* resilientHashEnabled attributes and its RedirectDest children, each with
\* its optional ip and mac attributes and its RedirectDestToDomainRSrc
\* relations, a relation being an optional target reference
RedirectDestGroupObj(hashAlgo, resilient, dests) ==
    [hashAlgo |-> hashAlgo, resilient |-> resilient, dests |-> dests]
RedirectDestObj(uri, ip, mac, doms) ==
    [uri |-> uri, ip |-> ip, mac |-> mac, doms |-> doms]

\* the comparison of two byte strings of the same length, as numbers
RECURSIVE bytesLess(_, _, _)
bytesLess(a, b, i) ==
    IF i > Len(a) THEN FALSE
    ELSE IF a[i] # b[i] THEN a[i] < b[i]
    ELSE bytesLess(a, b, i + 1)

\* boost::asio::ip::address operator<: an IPv4 address is below an IPv6
\* address, two of a kind compare as numbers
addressLess(a, b) ==
    IF a.v6 # b.v6 THEN ~a.v6
    ELSE bytesLess(a.bytes, b.bytes, 1)

compareRedirects(lhs, rhs) == addressLess(lhs.ip, rhs.ip)

PolicyRedirectDest(dest, addr, mac, rd, bd, rdInst, bdInst) ==
    [dest |-> dest, ip |-> addr, mac |-> mac, rd |-> rd, bd |-> bd,
     rdInst |-> rdInst, bdInst |-> bdInst]

\* the body of the loop over the domain relations of a destination, for a
\* relation whose target is set: d holds bd, rd, bdInst, rdInst, the
\* iterator i and whether the loop has been left by break
resolveBridgeDomainRef(d, uri) ==
    IF stBD[uri] = None
    THEN [d EXCEPT !.bd = None, !.broke = TRUE]
    ELSE [d EXCEPT !.bd = Some(uri), !.bdInst = Get(stBD[uri]).inst,
                   !.i = @ + 1]

resolveRoutingDomainRef(d, uri) ==
    IF stRD[uri] = None
    THEN [d EXCEPT !.rd = None, !.broke = TRUE]
    ELSE [d EXCEPT !.rd = Some(uri), !.rdInst = Get(stRD[uri]).inst,
                   !.i = @ + 1]

resolveDomainRef(d, ref) ==
    IF ref.cls = BridgeDomainClass THEN resolveBridgeDomainRef(d, ref.uri)
    ELSE IF ref.cls = RoutingDomainClass
    THEN resolveRoutingDomainRef(d, ref.uri)
    ELSE [d EXCEPT !.i = @ + 1]

RECURSIVE resolveDomainRefs(_, _)
resolveDomainRefs(redirDoms, d) ==
    IF d.i > Len(redirDoms) \/ d.broke THEN d
    ELSE resolveDomainRefs(redirDoms,
            IF redirDoms[d.i] = None THEN [d EXCEPT !.i = @ + 1]
            ELSE resolveDomainRef(d, Get(redirDoms[d.i])))

redirectDomains(redirDest) ==
    resolveDomainRefs(redirDest.doms,
        [bd |-> None, rd |-> None, bdInst |-> None, rdInst |-> None,
         i |-> 1, broke |-> FALSE])

\* rd.get() and bd.get(): get() of an optional without value is undefined.
\* Where assertions are compiled in the process stops; elsewhere the
\* storage of the optional is read, which holds whatever was left there:
\* a domain resolved earlier, or nothing that is a domain
StrayDomain == "stray"
readDomain(o, domains) ==
    IF o = None THEN domains \cup {StrayDomain} ELSE {Get(o)}

\* the body of the loop over the destinations of the group, d being the
\* domains of the destination: the outcomes it can have, each the list
\* newRedirDests after it, or that the process has stopped
resolvedDest(redirDest, d, newRedirDests) ==
    IF d.bdInst = None \/ d.rdInst = None \/ redirDest.ip = None
       \/ redirDest.mac = None
    THEN {Returned(Some(newRedirDests))}
    ELSE IF address_from_string(Get(redirDest.ip)) = None
    THEN {Returned(Some(newRedirDests))}
    ELSE (IF d.rd = None \/ d.bd = None THEN {Aborted} ELSE {})
         \cup {Returned(Some(Append(newRedirDests,
                    PolicyRedirectDest(redirDest.uri,
                        Get(address_from_string(Get(redirDest.ip))),
                        Get(redirDest.mac), rd, bd,
                        Get(d.rdInst), Get(d.bdInst))))) :
                  rd \in readDomain(d.rd, RDs), bd \in readDomain(d.bd, BDs)}

\* the loop over the destinations of the group: its outcomes
RECURSIVE resolveRedirectDests(_, _)
resolveRedirectDests(redirDests, newRedirDests) ==
    IF redirDests = <<>> THEN {Returned(Some(newRedirDests))}
    ELSE UNION {IF o.aborted THEN {Aborted}
                ELSE resolveRedirectDests(Tail(redirDests), Get(o.value)) :
                   o \in resolvedDest(Head(redirDests),
                                      redirectDomains(Head(redirDests)),
                                      newRedirDests)}

\* std::list::sort(compareRedirects): a stable sort, as an insertion sort
\* that puts x behind every element that is not greater than it
RECURSIVE insertRedirect(_, _, _)
insertRedirect(x, s, i) ==
    IF i > Len(s) THEN Append(s, x)
    ELSE IF compareRedirects(x, s[i])
         THEN SubSeq(s, 1, i - 1) \o <<x>> \o SubSeq(s, i, Len(s))
         ELSE insertRedirect(x, s, i + 1)

RECURSIVE sortRedirectsLoop(_, _)
sortRedirectsLoop(s, out) ==
    IF Len(out) >= Len(s) THEN out
    ELSE sortRedirectsLoop(s, insertRedirect(s[Len(out) + 1], out, 1))

\* the list stored as it was resolved
sortRedirects_none(s) == s

sortRedirects(s) == sortRedirectsLoop(s, <<>>)

\* operator==(PolicyRedirectDest, PolicyRedirectDest): by address, MAC and
\* the URIs of the routing domain and the bridge domain
PolicyRedirectDest_eq(lhs, rhs) ==
    /\ lhs.ip = rhs.ip
    /\ lhs.mac = rhs.mac
    /\ lhs.rd = rhs.rd
    /\ lhs.bd = rhs.bd

\* li->get() == ri->get(): two destinations are the same when they are the
\* same object, and every resolved destination is an object of its own
sameDestObject(oldDest, newDest) == FALSE

RECURSIVE redirectsDiffer(_, _, _)
redirectsDiffer(oldDests, newDests, i) ==
    IF i > Len(oldDests) \/ i > Len(newDests)
    THEN i <= Len(oldDests) \/ i <= Len(newDests)
    ELSE IF sameDestObject(oldDests[i], newDests[i])
         THEN redirectsDiffer(oldDests, newDests, i + 1)
         ELSE TRUE

getHashAlgo(grp) ==
    IF grp.hashAlgo = None THEN CONST_SYMMETRIC ELSE Get(grp.hashAlgo)
getResilientHashEnabled(grp) ==
    IF grp.resilient = None THEN ResilientHashDefault ELSE Get(grp.resilient)

\* updateRedirectDestGroup for a group that resolves, newRedirDests being
\* its resolved destinations
storeRedirectDests(uri, rgm, redirState, grp, newRedirDests, notifyGroup) ==
    [rgm |-> MapPut(rgm, uri,
                [redirDstList |-> sortRedirects(newRedirDests),
                 hashAlgo |-> getHashAlgo(grp),
                 resilientHashEnabled |-> getResilientHashEnabled(grp),
                 ctrctSet |-> redirState.ctrctSet]),
     notifyGroup |->
        IF \/ redirectsDiffer(redirState.redirDstList, newRedirDests, 1)
           \/ getHashAlgo(grp) # redirState.hashAlgo
           \/ getResilientHashEnabled(grp) # redirState.resilientHashEnabled
        THEN notifyGroup \cup redirState.ctrctSet
        ELSE notifyGroup,
     aborted |-> FALSE]

\* updateRedirectDestGroup stopped while it resolved the destinations:
\* redirGrpMap[uri] has made the entry of the group, nothing else is done
abortedRedirectDests(uri, rgm, notifyGroup) ==
    [rgm |-> MapPut(rgm, uri, redirGrpAt(rgm, uri)),
     notifyGroup |-> notifyGroup, aborted |-> TRUE]

\* updateRedirectDestGroup(uri, notifyGroup) on redirGrpMap rgm: the
\* outcomes it can have
updateRedirectDestGroup(uri, rgm, notifyGroup) ==
    IF stRedir[uri] = None
    THEN {[rgm |-> MapErase(rgm, uri),
           notifyGroup |-> notifyGroup \cup redirGrpAt(rgm, uri).ctrctSet,
           aborted |-> FALSE]}
    ELSE {IF o.aborted THEN abortedRedirectDests(uri, rgm, notifyGroup)
          ELSE storeRedirectDests(uri, rgm, redirGrpAt(rgm, uri),
                                  Get(stRedir[uri]), Get(o.value),
                                  notifyGroup) :
             o \in resolveRedirectDests(Get(stRedir[uri]).dests, <<>>)}

\* getPolicyDestGroup(redirURI, redirList, hashParam_, hashOpt_): the
\* destinations are appended to redirList
getPolicyDestGroup(redirURI, redirList) ==
    IF redirURI \notin DOMAIN redirGrpMap
    THEN [found |-> FALSE, redirList |-> redirList,
          hashParam |-> None, hashOpt |-> None]
    ELSE [found |-> TRUE,
          redirList |-> redirList \o redirGrpMap[redirURI].redirDstList,
          hashParam |-> Some(redirGrpMap[redirURI].resilientHashEnabled),
          hashOpt |-> Some(redirGrpMap[redirURI].hashAlgo)]

----------------------------------------------------------------------------
(* The task queue and the listener sinks *)

\* TaskQueue::dispatch(key, task): a key already queued stays queued once.
\* The key of a task fixes the routine it runs and its arguments.
DlKey(cls, uri) == [q |-> "dl", cls |-> cls, uri |-> uri]
ClKey(cls, uri) == [q |-> "cl", cls |-> cls, uri |-> uri]
ContractKey == [q |-> "contract", cls |-> "", uri |-> ""]

SecGroupKey == [q |-> "secgroup", cls |-> "", uri |-> ""]

\* the places of the queue that hold a task of the key of `task`
queuedAt(queue, task) ==
    {i \in 1..Len(queue) : queue[i].q = task.q /\ queue[i].uri = task.uri}

\* dispatch taking the queued task of the key out of the queue and putting
\* none in its place
dispatch_discard(queue, task) ==
    IF queuedAt(queue, task) = {} THEN Append(queue, task)
    ELSE SelectSeq(queue, LAMBDA t : ~(t.q = task.q /\ t.uri = task.uri))

\* dispatch without the replacement
dispatch_append(queue, task) == Append(queue, task)

\* TaskQueue::dispatch(key, task): a task of the same key that is queued
\* and not started is replaced by the new task; otherwise the task joins
\* the end of the queue
dispatch(queue, task) ==
    IF queuedAt(queue, task) = {} THEN Append(queue, task)
    ELSE [i \in 1..Len(queue) |->
             IF i \in queuedAt(queue, task) THEN task ELSE queue[i]]

\* DomainListener::objectUpdated
DomainListener_objectUpdated(class_id, uri) == {DlKey(class_id, uri)}

NoTask == TaskRecord("none", "", "", {}, {}, {})

\* ContractListener::objectUpdated: the task it dispatches
ContractListener_objectUpdated(classId, uri) ==
    IF classId \in {EpGroupClass, L3ExternalNetworkClass, RoutingDomainClass,
                    RedirectDestGroupClass, RedirectDestClass}
    THEN {ClKey(classId, uri)}
    ELSE {ContractKey}

\* the callback resetting the entry of a contract that has one
ContractListener_entry_reset(classId, uri, cm) ==
    IF classId = ContractClass
    THEN MapPut(cm, uri, DefaultContractState)
    ELSE cm

\* ContractListener::objectUpdated: the entry it makes for a contract
ContractListener_entry(classId, uri, cm) ==
    IF classId = ContractClass /\ uri \notin DOMAIN cm
    THEN MapPut(cm, uri, DefaultContractState)
    ELSE cm

\* the task of key "cl"+uri for an endpoint group or an external network:
\* executeAndNotifyContract around updateGroupContracts
executeUpdateGroupContracts(classId, uri) ==
    \E r \in {updateGroupContracts(classId, uri, l3State({}))} :
        /\ contractMap' = r.cm
        /\ groupContractMap' = r.gcm
        /\ lastTask' = TaskRecord("updateGroupContracts", classId, uri,
                                  {}, {}, r.updatedContracts)

\* the task of key "cl"+uri for a routing domain: executeAndNotifyContract
\* around updateL3Nets
executeUpdateL3Nets(uri) ==
    \E extNets \in Perms(resolveL3ExternalNetworks(uri)) :
      \E oldNets \in Perms(rdExtNets(uri)) :
        \E r \in {updateL3Nets(uri, extNets, oldNets)} :
            /\ contractMap' = r.cm
            /\ groupContractMap' = r.gcm
            /\ l3n_map' = r.l3m
            /\ nat_epg_l3_ext' = r.nat
            /\ rd_map' = updateL3NetsRds(uri)
            /\ lastTask' = TaskRecord("updateL3Nets", RoutingDomainClass, uri,
                                      {}, {}, r.updatedContracts)

\* the task of key "cl"+uri for a redirect group: executeAndNotifyContract
\* around updateRedirectDestGroup
executeUpdateRedirectDestGroup(uri) ==
    \E r \in updateRedirectDestGroup(uri, redirGrpMap, {}) :
        /\ redirGrpMap' = r.rgm
        /\ lastTask' = IF r.aborted
                       THEN TaskRecord("aborted", RedirectDestGroupClass, uri,
                                       {}, {}, {})
                       ELSE TaskRecord("updateRedirectDestGroup",
                                       RedirectDestGroupClass, uri,
                                       {}, {}, r.notifyGroup)

\* the loop of updateRedirectDestGroups over redirGrpMap, in iteration
\* order `order`: the outcomes it can have.  A call that erases the entry
\* of the group leaves the iterator of the loop pointing at an erased
\* element; incrementing it is undefined: it faults, or yields end(), or
\* yields the element that followed
RECURSIVE updateRedirectDestGroupsLoop(_, _, _)
updateRedirectDestGroupsLoop(order, i, st) ==
    IF i > Len(order) THEN {st}
    ELSE UNION {
        LET kept == order[i] \in DOMAIN r.rgm
            nx == [rgm |-> r.rgm, notifyGroup |-> r.notifyGroup,
                   erased |-> IF kept THEN st.erased
                              ELSE st.erased \cup {order[i]},
                   ended |-> st.ended]
        IN  IF r.aborted THEN {[nx EXCEPT !.ended = "aborted"]}
            ELSE IF kept THEN updateRedirectDestGroupsLoop(order, i + 1, nx)
            ELSE {[nx EXCEPT !.ended = "aborted"], nx}
                 \cup updateRedirectDestGroupsLoop(order, i + 1, nx) :
        r \in updateRedirectDestGroup(order[i], st.rgm, st.notifyGroup)}

\* updateRedirectDestGroups(notifyGroup) on redirGrpMap rgm
updateRedirectDestGroups(rgm, order, notifyGroup) ==
    updateRedirectDestGroupsLoop(order, 1,
        [rgm |-> rgm, notifyGroup |-> notifyGroup, erased |-> {},
         ended |-> "returned"])

\* the task of key "cl"+uri for a redirect destination:
\* executeAndNotifyContract around updateRedirectDestGroups; callOut keeps
\* the entries erased under the iterator and how the loop ended
executeUpdateRedirectDestGroups(uri) ==
    \E order \in Perms(DOMAIN redirGrpMap) :
        \E r \in updateRedirectDestGroups(redirGrpMap, order, {}) :
            /\ redirGrpMap' = r.rgm
            /\ lastTask' = TaskRecord("updateRedirectDestGroups",
                                      RedirectDestClass, uri, {}, {},
                                      IF r.ended = "aborted" THEN {}
                                      ELSE r.notifyGroup)
            /\ callIn' = Some(order)
            /\ callOut' = Some([erased |-> r.erased, ended |-> r.ended])

\* SecGroupListener::objectUpdated: the task it dispatches
SecGroupListener_objectUpdated(classId, uri) == SecGroupKey

\* SecGroupListener::objectUpdated: the entry it makes for a security group
SecGroupListener_entry(classId, uri, sm) ==
    IF classId = SecGroupClass /\ uri \notin DOMAIN sm
    THEN MapPut(sm, uri, <<>>)
    ELSE sm

\* the task of key "secgroup"
updateSecGrps ==
    \E order \in Perms(DOMAIN secGrpMap) :
        \E r \in {updateSecGrpsResult(order)} :
            /\ secGrpMap' = r.sm
            /\ lastTask' = [TaskRecord("updateSecGrps", "", "", {}, {}, {})
                               EXCEPT !.sgNotif = r.toNotify]

\* the task of key "contract"
updateContracts ==
    \E order \in Perms(DOMAIN contractMap) :
        \E r \in {updateContractsResult(order)} :
            /\ contractMap' = r.cm
            /\ redirGrpMap' = r.rgm
            /\ lastTask' = TaskRecord("updateContracts", "", "",
                                      {}, {}, r.contractsToNotify)

----------------------------------------------------------------------------
(* start() and stop() *)

Registration(sink, cls) == <<sink, cls>>

\* the classes each sink is registered for
ConfigClasses == {"Config"}
DomainClasses ==
    {BridgeDomainClass, FloodDomainClass, "FloodContext", RoutingDomainClass,
     "Subnets", "Subnet", EpGroupClass, L3ExternalNetworkClass}
ContractClasses ==
    {EpGroupClass, L3ExternalNetworkClass, RoutingDomainClass, ContractClass,
     "Subject", "Rule", "L24Classifier", RedirectDestGroupClass,
     RedirectDestClass, "RedirectAction"}
SecGroupClasses ==
    {SecGroupClass, "SecGroupSubject", "SecGroupRule", "L24Classifier",
     "Subnets", "Subnet"}

\* the registerListener calls of start()
startRegistrations ==
    {Registration("config", c) : c \in ConfigClasses}
    \cup {Registration("domain", c) : c \in DomainClasses}
    \cup {Registration("contract", c) : c \in ContractClasses}
    \cup {Registration("secgroup", c) : c \in SecGroupClasses}

\* the unregisterListener calls of stop()
stopUnregistrations ==
    {Registration("domain", c) : c \in DomainClasses}
    \cup {Registration("contract", c) : c \in ContractClasses}
    \cup {Registration("secgroup", c) : c \in SecGroupClasses}

\* start(): the sinks are registered
start == registered' = registered \cup startRegistrations

\* stop() up to its lock_guard: the sinks are unregistered, with no mutex
\* held
stopUnregister == registered' = registered \ stopUnregistrations

\* stop() from its lock_guard on: three maps are cleared under state_mutex
stopClear ==
    /\ group_map' = EmptyMap
    /\ vnid_map' = EmptyMap
    /\ redirGrpMap' = EmptyMap

----------------------------------------------------------------------------
(* The threads *)

Threads == {"worker", "store", "reader", "main"}

\* a thread that is running none of the routines of the policy manager:
\* task is the task the worker has started, toNotify the notifications it
\* has still to deliver, current the one being delivered, after the indices
\* as the task left them
IdleThread ==
    [pc |-> "idle", task |-> None, toNotify |-> {}, current |-> None,
     after |-> None]

\* lock_guard / unique_lock on a mutex: taken by t when no thread holds it
canLock(mutex) == mutex = None
lockedBy(t) == Some(t)

\* the update routine going on to notify with state_mutex still held
unlockBeforeNotify_keep(t) == Some(t)

\* guard.unlock() of updateDomain, updateContracts and updateSecGrps, and
\* the end of the block of executeAndNotifyContract: state_mutex once the
\* update routine of thread t goes on to notify
unlockBeforeNotify(t) == None

\* the notifications of a completed task
notificationsOf(task) ==
    {<<"egDomainUpdated", u>> : u \in task.egNotif}
    \cup {<<"domainUpdated", d[2]>> : d \in task.domNotif}
    \cup {<<"contractUpdated", u>> : u \in task.ctNotif}
    \cup {<<"secGroupUpdated", u>> : u \in task.sgNotif}

\* getContractRules(contractURI, rules) on contractMap cm
getContractRules(cm, contractURI) ==
    IF contractURI \in DOMAIN cm THEN cm[contractURI].rules ELSE <<>>

\* getSecGroupRules(secGroupURI, rules) on secGrpMap sm
getSecGroupRules(sm, secGroupURI) ==
    IF secGroupURI \in DOMAIN sm THEN sm[secGroupURI] ELSE <<>>

\* the query a listener makes from its callback for notification n, on the
\* indices ix: getContractRules for a contract, getBDForGroup for a group,
\* getBDForGroup and getRDForGroup of every group for a domain, and
\* getSecGroupRules for a security group
listenerQuery(ix, n) ==
    IF n[1] = "contractUpdated" THEN getContractRules(ix.contractMap, n[2])
    ELSE IF n[1] = "egDomainUpdated"
    THEN IF n[2] \in DOMAIN ix.group_map
         THEN ix.group_map[n[2]].bridgeDomain ELSE None
    ELSE IF n[1] = "domainUpdated"
    THEN [g \in Groups |->
             IF g \in DOMAIN ix.group_map
             THEN <<ix.group_map[g].bridgeDomain,
                    ix.group_map[g].routingDomain>>
             ELSE <<None, None>>]
    ELSE IF n[1] = "secGroupUpdated"
    THEN getSecGroupRules(ix.secGrpMap, n[2])
    ELSE None

----------------------------------------------------------------------------
(* The policy listeners: registerListener, unregisterListener, notify* *)

Listeners == {"la", "lb"}

\* policyListeners.push_back(listener)
registerListener(list, listener) == Append(list, listener)

\* policyListeners.remove(listener): every element equal to it
unregisterListener(list, listener) ==
    SelectSeq(list, LAMBDA l : l # listener)

\* the body of notifyEPGDomain, notifyDomain, notifyContract, notifySecGroup
\* and notifyConfig for the notification n: the callbacks of the listeners
\* in list order; failing holds the pairs of listener and notification whose
\* callback throws, and nothing in the loop catches
notifyListeners(list, n, failing) ==
    LET throwers == {i \in 1..Len(list) : <<list[i], n>> \in failing}
        last == IF throwers = {} THEN Len(list)
                ELSE CHOOSE i \in throwers : \A j \in throwers : i <= j
    IN [got |-> {<<list[i], n>> : i \in 1..last}, thrown |-> throwers # {}]

\* how a routine ends whose callback threw: the exception leaves the
\* PolicyManager frames, where lock_guard releases listener_mutex if the
\* stack is unwound; whether a caller catches it is outside this source
endings(thrown) == IF thrown THEN {"unwound", "terminated"} ELSE {"returned"}

ListenersOf(list) == {list[i] : i \in 1..Len(list)}

\* the notify loop at the end of an update routine is entered, state_mutex
\* released, with the notifications toNotify to make
startNotify(toNotify) ==
    [listeners |-> <<>>, toNotify |-> toNotify, left |-> toNotify,
     expected |-> {}, got |-> {}, thrown |-> FALSE,
     ended |-> IF toNotify = {} THEN "returned" ELSE "notifying"]

\* one turn of the notify loop, for the notification n of those left: the
\* notify* call takes listener_mutex, walks the list as it is at that
\* moment and releases the mutex; an exception leaves the routine
notifyLoop(d, list, n, failing) ==
    LET r == notifyListeners(list, n, failing)
        nd == [d EXCEPT !.listeners = list,
                        !.left = @ \ {n},
                        !.expected = @ \cup (ListenersOf(list) \X {n}),
                        !.got = @ \cup r.got,
                        !.thrown = r.thrown]
    IN IF r.thrown THEN {[nd EXCEPT !.ended = e] : e \in endings(TRUE)}
       ELSE {[nd EXCEPT !.ended = IF nd.left = {} THEN "returned"
                                  ELSE "notifying"]}

----------------------------------------------------------------------------
(* The state after construction *)

InitIndices ==
    /\ group_map = EmptyMap
    /\ vnid_map = EmptyMap
    /\ contractMap = EmptyMap
    /\ groupContractMap = EmptyMap
    /\ redirGrpMap = EmptyMap
    /\ rd_map = EmptyMap
    /\ l3n_map = EmptyMap
    /\ nat_epg_l3_ext = EmptyMap
    /\ pending = {}
    /\ lastTask = NoTask

\* the store before the controller has sent anything
EmptyStore ==
    /\ stEpg = [g \in Groups |-> None]
    /\ stFD = [f \in FDs |-> None]
    /\ stBD = [b \in BDs |-> None]
    /\ stRD = [r \in RDs |-> None]
    /\ stNet = [n \in Nets |-> None]
    /\ stContract = [c \in Contracts |-> None]
    /\ stRedir = [u \in RedirGrps |-> None]
    /\ stAux = [subnets |-> [s \in SubnetsURIs |-> None], rets |-> {}]

CompilerIdle ==
    /\ ruleIn = None
    /\ ruleOut = None

\* no replay under way
NoReplay == [round |-> 0, indices |-> None, notified |-> {}]

\* no event counted for a class-wide key
NoBurst == [events |-> 0, runs |-> 0]

\* nothing delivered yet: the listener list the last notify* call walked,
\* the notifications of a task and those still to make, the callbacks that
\* were due when their notify* call was made and those that were invoked,
\* whether one of them threw, and how the task ended
NoDelivery == startNotify({})

\* the manager as its constructor leaves it
RuntimeConstructed ==
    /\ replay = NoReplay
    /\ stSecGrp = [s \in SecGrps |-> None]
    /\ secGrpMap = EmptyMap
    /\ taskQueue = <<>>
    /\ queueLog = [k \in {"contract", "secgroup"} |-> NoBurst]
    /\ state_mutex = None
    /\ listener_mutex = None
    /\ threads = [t \in Threads |-> IdleThread]
    /\ policyListeners = <<>>
    /\ delivery = NoDelivery
    /\ callIn = None
    /\ callOut = None

\* the manager constructed and started
RuntimeIdle ==
    /\ RuntimeConstructed
    /\ registered = startRegistrations

----------------------------------------------------------------------------
(* SpecDomain: the domain sink.  The controller writes and removes         *)
(* endpoint groups, changing their encap ids, and a bridge domain; each    *)
(* change is delivered to DomainListener::objectUpdated, and the worker    *)
(* runs the queued updateDomain tasks one at a time.  No two endpoint      *)
(* groups of the store carry the same encap id at the same time.           *)

\* the instance contexts the controller may give an endpoint group
InstChoices ==
    {None} \cup {Some(InstCtx(e, None)) : e \in {None} \cup {Some(v) : v \in Encaps}}

\* the forwarding domain each endpoint group of this specification refers to
DomNetOf(g) ==
    IF g = "g1" THEN Some(Ref(BridgeDomainClass, "bd1")) ELSE None

encapOfStore(st, g) ==
    IF st[g] # None /\ Get(st[g]).inst # None
    THEN Get(Get(st[g]).inst).encap ELSE None

UniqueEncaps(st) ==
    \A g, h \in Groups :
        g # h /\ encapOfStore(st, g) # None
            => encapOfStore(st, g) # encapOfStore(st, h)

DomInit ==
    /\ stEpg = [g \in Groups |-> None]
    /\ stFD = [f \in FDs |-> None]
    /\ stBD = [b \in BDs |->
                 Some(BridgeDomainObj(Some(Ref(RoutingDomainClass, "rd1")),
                                      Some(InstCtx(None, Some("ret2"))),
                                      Some("sns1")))]
    /\ stRD = [r \in RDs |->
                 IF r = "rd1"
                 THEN Some(RoutingDomainObj(Some(InstCtx(None, Some("ret3"))),
                                             None))
                 ELSE None]
    /\ stNet = [n \in Nets |-> None]
    /\ stContract = [c \in Contracts |-> None]
    /\ stRedir = [u \in RedirGrps |-> None]
    /\ stAux = [subnets |->
                  [s \in SubnetsURIs |->
                     Some({[uri |-> "sn1", address |-> <<10, 0, 0, 0>>,
                            prefixLen |-> 8]})],
                rets |-> {"ret2", "ret3"}]
    /\ InitIndices
    /\ CompilerIdle
    /\ RuntimeIdle

DomWriteEpGroup ==
    \E g \in Groups, inst \in InstChoices :
        /\ stEpg' = [stEpg EXCEPT
                       ![g] = Some(EpGroupObj(inst, DomNetOf(g), None,
                                              {}, {}, {}))]
        /\ stEpg' # stEpg
        /\ UniqueEncaps(stEpg')
        /\ pending' = pending \cup DomainListener_objectUpdated(EpGroupClass, g)
        /\ UNCHANGED <<stFD, stBD, stRD, stNet, stContract, stRedir, stAux,
                       domainVars, contractVars, redirGrpMap, l3Vars,
                       lastTask, compilerVars, runtimeVars>>

DomRemoveEpGroup ==
    \E g \in Groups :
        /\ stEpg[g] # None
        /\ stEpg' = [stEpg EXCEPT ![g] = None]
        /\ pending' = pending \cup DomainListener_objectUpdated(EpGroupClass, g)
        /\ UNCHANGED <<stFD, stBD, stRD, stNet, stContract, stRedir, stAux,
                       domainVars, contractVars, redirGrpMap, l3Vars,
                       lastTask, compilerVars, runtimeVars>>

\* the controller removes the bridge domain, or sends it again
DomToggleBridgeDomain ==
    \E b \in BDs :
        /\ stBD' = [stBD EXCEPT
                      ![b] = IF stBD[b] = None
                             THEN Some(BridgeDomainObj(
                                      Some(Ref(RoutingDomainClass, "rd1")),
                                      Some(InstCtx(None, Some("ret2"))),
                                      Some("sns1")))
                             ELSE None]
        /\ pending' = pending
                      \cup DomainListener_objectUpdated(BridgeDomainClass, b)
        /\ UNCHANGED <<stEpg, stFD, stRD, stNet, stContract, stRedir, stAux,
                       domainVars, contractVars, redirGrpMap, l3Vars,
                       lastTask, compilerVars, runtimeVars>>

\* the worker starts the queued domain task k and runs it to completion
RunDomainTask ==
    \E k \in pending :
        /\ k.q = "dl"
        /\ pending' = pending \ {k}
        /\ updateDomain(k.cls, k.uri)
        /\ UNCHANGED <<storeVars, contractVars, redirGrpMap, l3Vars,
                       compilerVars, runtimeVars>>

DomNext ==
    \/ DomWriteEpGroup
    \/ DomRemoveEpGroup
    \/ DomToggleBridgeDomain
    \/ RunDomainTask

SpecDomain == DomInit /\ [][DomNext]_vars

----------------------------------------------------------------------------
(* SpecRemoval: the removal of groups.  As SpecDomain, with one instance   *)
(* context for each endpoint group: the controller writes and removes the  *)
(* two groups and the bridge domain, and the worker runs the queued        *)
(* updateDomain tasks.                                                     *)

\* the instance context of each endpoint group of this specification
RmInstOf(g) ==
    IF g = "g1" THEN Some(InstCtx(Some(1), None)) ELSE Some(InstCtx(None, None))

RmWriteEpGroup ==
    \E g \in Groups :
        /\ stEpg[g] = None
        /\ stEpg' = [stEpg EXCEPT
                       ![g] = Some(EpGroupObj(RmInstOf(g), DomNetOf(g), None,
                                              {}, {}, {}))]
        /\ pending' = pending \cup DomainListener_objectUpdated(EpGroupClass, g)
        /\ UNCHANGED <<stFD, stBD, stRD, stNet, stContract, stRedir, stAux,
                       domainVars, contractVars, redirGrpMap, l3Vars,
                       lastTask, compilerVars, runtimeVars>>

RemovalNext ==
    \/ RmWriteEpGroup
    \/ DomRemoveEpGroup
    \/ DomToggleBridgeDomain
    \/ RunDomainTask

SpecRemoval == DomInit /\ [][RemovalNext]_vars

----------------------------------------------------------------------------
(* SpecContract: the contract sink.  The controller writes and removes     *)
(* endpoint groups and an external network that refer to contracts, the    *)
(* contracts themselves and the routing domain of the network; each change *)
(* is delivered to ContractListener::objectUpdated, for the object and for *)
(* the object it is a child of, and the worker runs the queued tasks one   *)
(* at a time.  At most MaxPending tasks wait in the queue.                 *)

MaxPending == 2

ContractRefs(prov, cons, intra) ==
    [prov |-> prov, cons |-> cons, intra |-> intra]

\* the contracts the controller may make an endpoint group refer to
CtGroupChoices(g) ==
    IF g = "g1"
    THEN {ContractRefs({"c1"}, {"c2"}, {}), ContractRefs({}, {"c1"}, {"c1"})}
    ELSE {ContractRefs({"c2"}, {"c1"}, {})}

\* the external networks of this specification and what they may refer to
CtNets == {"n1"}
CtNetChoices == {ContractRefs({"c1"}, {"c2"}, {})}

\* the subjects of a contract of this specification: c1 allows one
\* classifier, c2 redirects one classifier to the redirect group rg1
CtContractSubjects(c) ==
    IF c = "c1"
    THEN << << RuleObj(1, Some("in"),
                       <<ClsRel(TRUE, Some(Classifier("cls1", 1)))>>,
                       <<ActRel(TRUE, "AllowDenyAction",
                                Some(AllowDenyObj(Some(1), Some(1))))>>) >> >>
    ELSE << << RuleObj(1, Some("out"),
                       <<ClsRel(TRUE, Some(Classifier("cls2", 1)))>>,
                       <<ActRel(TRUE, "RedirectAction",
                                Some(RedirectObj(Some(NatRef(Some("rg1"))))))>>)
            >> >>

CtInit ==
    /\ EmptyStore
    /\ InitIndices
    /\ CompilerIdle
    /\ RuntimeIdle

CtQueue(keys) ==
    /\ pending' = pending \cup keys
    /\ Cardinality(pending') <= MaxPending

CtWriteEpGroup ==
    \E g \in Groups : \E refs \in CtGroupChoices(g) :
        /\ stEpg' = [stEpg EXCEPT
                       ![g] = Some(EpGroupObj(None, None, None, refs.prov,
                                              refs.cons, refs.intra))]
        /\ stEpg' # stEpg
        /\ CtQueue(ContractListener_objectUpdated(EpGroupClass, g))
        /\ UNCHANGED <<stFD, stBD, stRD, stNet, stContract, stRedir, stAux,
                       domainVars, contractVars, redirGrpMap, l3Vars,
                       lastTask, compilerVars, runtimeVars>>

CtRemoveEpGroup ==
    \E g \in Groups :
        /\ stEpg[g] # None
        /\ stEpg' = [stEpg EXCEPT ![g] = None]
        /\ CtQueue(ContractListener_objectUpdated(EpGroupClass, g))
        /\ UNCHANGED <<stFD, stBD, stRD, stNet, stContract, stRedir, stAux,
                       domainVars, contractVars, redirGrpMap, l3Vars,
                       lastTask, compilerVars, runtimeVars>>

\* the controller sends a contract with its subjects, or removes it
CtToggleContract ==
    \E c \in Contracts :
        /\ stContract' = [stContract EXCEPT
                            ![c] = IF stContract[c] = None
                                   THEN Some(CtContractSubjects(c)) ELSE None]
        /\ contractMap' = ContractListener_entry(ContractClass, c, contractMap)
        /\ CtQueue(ContractListener_objectUpdated(ContractClass, c))
        /\ UNCHANGED <<stEpg, stFD, stBD, stRD, stNet, stRedir, stAux,
                       domainVars, groupContractMap, redirGrpMap, l3Vars,
                       lastTask, compilerVars, runtimeVars>>

CtWriteNet ==
    \E n \in CtNets, refs \in CtNetChoices :
        /\ stNet' = [stNet EXCEPT
                       ![n] = Some(L3ExternalNetworkObj(None, refs.prov,
                                                        refs.cons))]
        /\ stNet' # stNet
        /\ CtQueue(ContractListener_objectUpdated(L3ExternalNetworkClass, n)
                   \cup ContractListener_objectUpdated(RoutingDomainClass,
                                                       NetParent(n)))
        /\ UNCHANGED <<stEpg, stFD, stBD, stRD, stContract, stRedir, stAux,
                       domainVars, contractVars, redirGrpMap, l3Vars,
                       lastTask, compilerVars, runtimeVars>>

CtRemoveNet ==
    \E n \in CtNets :
        /\ stNet[n] # None
        /\ stNet' = [stNet EXCEPT ![n] = None]
        /\ CtQueue(ContractListener_objectUpdated(L3ExternalNetworkClass, n)
                   \cup ContractListener_objectUpdated(RoutingDomainClass,
                                                       NetParent(n)))
        /\ UNCHANGED <<stEpg, stFD, stBD, stRD, stContract, stRedir, stAux,
                       domainVars, contractVars, redirGrpMap, l3Vars,
                       lastTask, compilerVars, runtimeVars>>

CtToggleRoutingDomain ==
    /\ stRD' = [stRD EXCEPT
                  !["rd1"] = IF stRD["rd1"] = None
                             THEN Some(RoutingDomainObj(None, None))
                             ELSE None]
    /\ CtQueue(ContractListener_objectUpdated(RoutingDomainClass, "rd1"))
    /\ UNCHANGED <<stEpg, stFD, stBD, stNet, stContract, stRedir, stAux,
                   domainVars, contractVars, redirGrpMap, l3Vars,
                   lastTask, compilerVars, runtimeVars>>

RunGroupContractsTask ==
    \E k \in pending :
        /\ k.q = "cl"
        /\ k.cls \in {EpGroupClass, L3ExternalNetworkClass}
        /\ pending' = pending \ {k}
        /\ executeUpdateGroupContracts(k.cls, k.uri)
        /\ UNCHANGED <<storeVars, domainVars, redirGrpMap, l3Vars,
                       compilerVars, runtimeVars>>

RunL3NetsTask ==
    \E k \in pending :
        /\ k.q = "cl"
        /\ k.cls = RoutingDomainClass
        /\ pending' = pending \ {k}
        /\ executeUpdateL3Nets(k.uri)
        /\ UNCHANGED <<storeVars, domainVars, redirGrpMap, compilerVars, runtimeVars>>

RunContractsTask ==
    /\ ContractKey \in pending
    /\ pending' = pending \ {ContractKey}
    /\ updateContracts
    /\ UNCHANGED <<storeVars, domainVars, groupContractMap, l3Vars,
                   compilerVars, runtimeVars>>

CtNext ==
    \/ CtWriteEpGroup
    \/ CtRemoveEpGroup
    \/ CtToggleContract
    \/ CtWriteNet
    \/ CtRemoveNet
    \/ CtToggleRoutingDomain
    \/ RunGroupContractsTask
    \/ RunL3NetsTask
    \/ RunContractsTask

SpecContract == CtInit /\ [][CtNext]_vars

----------------------------------------------------------------------------
(* SpecL3: external networks.  The controller writes and removes routing   *)
(* domains and the external networks below them, giving a network a NAT    *)
(* endpoint group, a NAT reference without target, or none.  Each change   *)
(* is delivered to ContractListener::objectUpdated, for the object and for *)
(* the object it is a child of; the worker runs the queued tasks one at a  *)
(* time.  At most MaxPending tasks wait in the queue.                      *)

\* the routing domain and the external networks of this specification
L3RDs == {"rd1"}
L3Nets == {"n1", "n2"}

\* the NAT references the controller may give an external network
L3NatChoices(n) ==
    IF n = "n1"
    THEN {None, Some(NatRef(None))} \cup {Some(NatRef(Some(e))) : e \in Groups}
    ELSE {Some(NatRef(Some("g1")))}

L3Queue(keys) ==
    /\ pending' = pending \cup keys
    /\ Cardinality(pending') <= MaxPending

L3Init ==
    /\ EmptyStore
    /\ InitIndices
    /\ CompilerIdle
    /\ RuntimeIdle

L3WriteNet ==
    \E n \in L3Nets : \E nat \in L3NatChoices(n) :
        /\ stNet' = [stNet EXCEPT ![n] = Some(L3ExternalNetworkObj(nat, {}, {}))]
        /\ stNet' # stNet
        /\ L3Queue(ContractListener_objectUpdated(L3ExternalNetworkClass, n)
                   \cup ContractListener_objectUpdated(RoutingDomainClass,
                                                       NetParent(n)))
        /\ UNCHANGED <<stEpg, stFD, stBD, stRD, stContract, stRedir, stAux,
                       domainVars, contractVars, redirGrpMap, l3Vars,
                       lastTask, compilerVars, runtimeVars>>

L3RemoveNet ==
    \E n \in L3Nets :
        /\ stNet[n] # None
        /\ stNet' = [stNet EXCEPT ![n] = None]
        /\ L3Queue(ContractListener_objectUpdated(L3ExternalNetworkClass, n)
                   \cup ContractListener_objectUpdated(RoutingDomainClass,
                                                       NetParent(n)))
        /\ UNCHANGED <<stEpg, stFD, stBD, stRD, stContract, stRedir, stAux,
                       domainVars, contractVars, redirGrpMap, l3Vars,
                       lastTask, compilerVars, runtimeVars>>

L3ToggleRoutingDomain ==
    \E r \in L3RDs :
        /\ stRD' = [stRD EXCEPT
                      ![r] = IF stRD[r] = None
                             THEN Some(RoutingDomainObj(None, None))
                             ELSE None]
        /\ L3Queue(ContractListener_objectUpdated(RoutingDomainClass, r))
        /\ UNCHANGED <<stEpg, stFD, stBD, stNet, stContract, stRedir, stAux,
                       domainVars, contractVars, redirGrpMap, l3Vars,
                       lastTask, compilerVars, runtimeVars>>

L3Next ==
    \/ L3WriteNet
    \/ L3RemoveNet
    \/ L3ToggleRoutingDomain
    \/ RunGroupContractsTask
    \/ RunL3NetsTask

SpecL3 == L3Init /\ [][L3Next]_vars

----------------------------------------------------------------------------
(* SpecRules: the rule compiler on its own.  A contract is drawn from a    *)
(* family of inputs: every subject of up to MaxSmallRules rules of         *)
(* RuleChoices, contracts of up to MaxSubjects subjects of PairSubjects,   *)
(* and long subjects of up to MaxRules rules, the first of them with up to *)
(* MaxClassifiers classifiers and the last but one, compiled when the rule *)
(* priority has reached 128, with two.  The one step compiles it into an   *)
(* empty rule list.                                                        *)

MaxSubjects == 2
MaxSmallRules == 2
MaxRules == 66
MaxClassifiers == 129

SeqsUpTo(S, n) == UNION {[1..k -> S] : k \in 0..n}

AllowAction ==
    ActRel(TRUE, "AllowDenyAction", Some(AllowDenyObj(Some(1), Some(1))))

\* the classifier relations a rule may have: none, one, four of which two
\* resolve to L24Classifiers and come in descending order, two of equal order
ClsChoices ==
    {<<>>,
     <<ClsRel(TRUE, Some(Classifier("a", 1)))>>,
     <<ClsRel(TRUE, Some(Classifier("b", 2))),
       ClsRel(FALSE, Some(Classifier("x", 1))),
       ClsRel(TRUE, None),
       ClsRel(TRUE, Some(Classifier("a", 1)))>>,
     <<ClsRel(TRUE, Some(Classifier("d", 1))),
       ClsRel(TRUE, Some(Classifier("c", 1)))>>}

RuleChoices ==
    {RuleObj(o, d, c, <<AllowAction>>) :
        o \in 1..2, d \in {None, Some("in")}, c \in ClsChoices}

SmallSubjects == SeqsUpTo(RuleChoices, MaxSmallRules)

OneClassifier(u) == <<ClsRel(TRUE, Some(Classifier(u, 1)))>>

PairSubjects ==
    {<<>>,
     <<RuleObj(1, Some("in"), OneClassifier("a"), <<AllowAction>>)>>,
     <<RuleObj(2, Some("out"), OneClassifier("a"), <<AllowAction>>),
       RuleObj(1, Some("in"), OneClassifier("b"), <<AllowAction>>)>>,
     <<RuleObj(1, Some("in"),
               <<ClsRel(TRUE, Some(Classifier("a", 1))),
                 ClsRel(TRUE, Some(Classifier("b", 2)))>>, <<AllowAction>>)>>}

\* n rules in descending order of their order attribute, the rule of order
\* 2 without direction; each has one classifier, named after its order,
\* but the rule of order 1, the first after sorting, which has m in
\* descending order, and the rule of order n - 1, the last but one, which
\* has two: with n above 65 that rule is compiled at the rule priority 128
\* and is followed by another rule
LongSubject(n, m) ==
    [i \in 1..n |->
        RuleObj(n + 1 - i,
                IF n + 1 - i = 2 THEN None ELSE Some("in"),
                IF i = n
                THEN [j \in 1..m |->
                        ClsRel(TRUE, Some(Classifier(<<1, m + 1 - j>>,
                                                     m + 1 - j)))]
                ELSE IF i = 2
                THEN <<ClsRel(TRUE, Some(Classifier(<<n - 1, 2>>, 2))),
                       ClsRel(TRUE, Some(Classifier(<<n - 1, 1>>, 1)))>>
                ELSE OneClassifier(<<n + 1 - i, 1>>),
                <<AllowAction>>)]

LongSubjects == {LongSubject(MaxRules, MaxClassifiers)}

RuleInputs ==
    {<<s>> : s \in SmallSubjects \cup LongSubjects}
    \cup SeqsUpTo(PairSubjects, MaxSubjects)
    \cup {<<l, s>> : l \in LongSubjects, s \in PairSubjects \ {<<>>}}

RulesInit ==
    /\ EmptyStore
    /\ InitIndices
    /\ ruleIn \in {Some(p) : p \in RuleInputs}
    /\ ruleOut = None
    /\ RuntimeIdle

\* updatePolicyRules compiles the contract into an empty rule list
CompileRules ==
    /\ ruleOut = None
    /\ ruleOut' = Some(updatePolicyRules(ruleIn, <<>>))
    /\ UNCHANGED <<storeVars, domainVars, contractVars, redirGrpMap, l3Vars,
                   pending, lastTask, ruleIn, runtimeVars>>

RulesNext == CompileRules

SpecRules == RulesInit /\ [][RulesNext]_vars

----------------------------------------------------------------------------
(* SpecActions: the actions of a rule.  A contract of one subject with one *)
(* rule is drawn whose action relations are any sequence of up to          *)
(* MaxActions of ActChoices; the one step compiles it.                     *)

MaxActions == 3

\* the action relations a rule may have: allow-deny actions of two orders
\* or none, allowing, denying or silent; one that does not resolve; redirect
\* actions with a destination group, without a target, without the relation
\* and unresolved; and a relation without target
ActChoices ==
    {ActRel(TRUE, "AllowDenyAction", Some(AllowDenyObj(o, a))) :
        o \in {None, Some(1), Some(2)}, a \in {None, Some(0), Some(1)}}
    \cup {ActRel(TRUE, "AllowDenyAction", None),
          ActRel(TRUE, "RedirectAction",
                 Some(RedirectObj(Some(NatRef(Some("rg1")))))),
          ActRel(TRUE, "RedirectAction", Some(RedirectObj(Some(NatRef(None))))),
          ActRel(TRUE, "RedirectAction", Some(RedirectObj(None))),
          ActRel(TRUE, "RedirectAction", None),
          ActRel(FALSE, "RedirectAction", None)}

ActionInputs ==
    {<< <<RuleObj(1, Some("in"), OneClassifier("a"), acts)>> >> :
        acts \in SeqsUpTo(ActChoices, MaxActions)}

ActionsInit ==
    /\ EmptyStore
    /\ InitIndices
    /\ ruleIn \in {Some(p) : p \in ActionInputs}
    /\ ruleOut = None
    /\ RuntimeIdle

ActionsNext == CompileRules

SpecActions == ActionsInit /\ [][ActionsNext]_vars

----------------------------------------------------------------------------
(* SpecRedirect: redirect groups.  The controller writes the redirect      *)
(* group rg1 with up to MaxDests destinations, removes it, and removes or  *)
(* sends again the bridge domain the destinations refer to.  A change of   *)
(* the group is delivered to ContractListener::objectUpdated; the worker   *)
(* runs the queued updateRedirectDestGroup tasks one at a time.            *)

MaxDests == 3

RdBridgeDomain ==
    Some(BridgeDomainObj(None, Some(InstCtx(Some(1), None)), None))
RdRoutingDomain ==
    Some(RoutingDomainObj(Some(InstCtx(Some(2), None)), None))

BdRef == Some(Ref(BridgeDomainClass, "bd1"))
RdRef == Some(Ref(RoutingDomainClass, "rd1"))

\* the destinations the controller may send: addresses that need sorting as
\* numbers and across the two families, a text that is no address, a
\* destination without MAC and one without routing domain
DestChoices ==
    {RedirectDestObj("d9", Some(IpText("dotted", <<10, 0, 0, 9>>)),
                     Some("m9"), <<BdRef, RdRef>>),
     RedirectDestObj("d10", Some(IpText("dotted", <<10, 0, 0, 10>>)),
                     Some("m10"), <<RdRef, BdRef>>),
     RedirectDestObj("d6", Some(IpText("colon", <<0, 0, 0, 0, 0, 0, 0, 258>>)),
                     Some("m6"), <<BdRef, None, RdRef>>),
     RedirectDestObj("dx", Some(IpText("dotted", <<10, 0, 0, 256>>)),
                     Some("mx"), <<BdRef, RdRef>>),
     RedirectDestObj("dm", Some(IpText("dotted", <<10, 0, 0, 1>>)),
                     None, <<BdRef, RdRef>>),
     RedirectDestObj("dr", Some(IpText("dotted", <<10, 0, 0, 2>>)),
                     Some("mr"), <<BdRef>>)}

\* the destination lists of a group: no destination twice
DestLists ==
    {l \in SeqsUpTo(DestChoices, MaxDests) :
        \A i, j \in 1..Len(l) : i # j => l[i] # l[j]}

RedirInit ==
    /\ stEpg = [g \in Groups |-> None]
    /\ stFD = [f \in FDs |-> None]
    /\ stBD = [b \in BDs |-> RdBridgeDomain]
    /\ stRD = [r \in RDs |-> IF r = "rd1" THEN RdRoutingDomain ELSE None]
    /\ stNet = [n \in Nets |-> None]
    /\ stContract = [c \in Contracts |-> None]
    /\ stRedir = [u \in RedirGrps |-> None]
    /\ stAux = [subnets |-> [sn \in SubnetsURIs |-> None], rets |-> {}]
    /\ InitIndices
    /\ CompilerIdle
    /\ RuntimeIdle

RedirWriteGroup ==
    \E u \in RedirGrps, dests \in DestLists :
        /\ stRedir' = [stRedir EXCEPT
                         ![u] = Some(RedirectDestGroupObj(None, None, dests))]
        /\ stRedir' # stRedir
        /\ pending' = pending
                      \cup ContractListener_objectUpdated(RedirectDestGroupClass, u)
        /\ UNCHANGED <<stEpg, stFD, stBD, stRD, stNet, stContract, stAux,
                       domainVars, contractVars, redirGrpMap, l3Vars,
                       lastTask, compilerVars, runtimeVars>>

RedirRemoveGroup ==
    \E u \in RedirGrps :
        /\ stRedir[u] # None
        /\ stRedir' = [stRedir EXCEPT ![u] = None]
        /\ pending' = pending
                      \cup ContractListener_objectUpdated(RedirectDestGroupClass, u)
        /\ UNCHANGED <<stEpg, stFD, stBD, stRD, stNet, stContract, stAux,
                       domainVars, contractVars, redirGrpMap, l3Vars,
                       lastTask, compilerVars, runtimeVars>>

\* the bridge domain is no class of the contract sink: nothing is queued
RedirToggleBridgeDomain ==
    \E b \in BDs :
        /\ stBD' = [stBD EXCEPT
                      ![b] = IF stBD[b] = None THEN RdBridgeDomain ELSE None]
        /\ UNCHANGED <<stEpg, stFD, stRD, stNet, stContract, stRedir, stAux,
                       domainVars, contractVars, redirGrpMap, l3Vars,
                       pending, lastTask, compilerVars, runtimeVars>>

RunRedirectDestGroupTask ==
    \E k \in pending :
        /\ k.q = "cl"
        /\ k.cls = RedirectDestGroupClass
        /\ pending' = pending \ {k}
        /\ executeUpdateRedirectDestGroup(k.uri)
        /\ UNCHANGED <<storeVars, domainVars, contractVars, l3Vars,
                       compilerVars, runtimeVars>>

RedirNext ==
    \/ RedirWriteGroup
    \/ RedirRemoveGroup
    \/ RedirToggleBridgeDomain
    \/ RunRedirectDestGroupTask

SpecRedirect == RedirInit /\ [][RedirNext]_vars

----------------------------------------------------------------------------
(* SpecRedirNotify: redirect groups that contracts use.  The controller    *)
(* writes and removes the contracts c1 and c2, c2 redirecting to rg1, and  *)
(* writes, sends again and removes the redirect group rg1 with one of a    *)
(* few destination lists and hash settings, one of them with a            *)
(* destination whose last domain does not resolve.  The worker runs the    *)
(* queued updateContracts and updateRedirectDestGroup tasks.               *)

RnDestLists ==
    {<<>>,
     <<RedirectDestObj("d9", Some(IpText("dotted", <<10, 0, 0, 9>>)),
                       Some("m9"), <<BdRef, RdRef>>)>>,
     <<RedirectDestObj("d10", Some(IpText("dotted", <<10, 0, 0, 10>>)),
                       Some("m10"), <<RdRef, BdRef>>),
       RedirectDestObj("d9", Some(IpText("dotted", <<10, 0, 0, 9>>)),
                       Some("m9"), <<BdRef, RdRef>>)>>}

\* a destination that refers to the routing domain rd2, which the store
\* never holds, after rd1
RnStrayDests ==
    <<RedirectDestObj("du", Some(IpText("dotted", <<10, 0, 0, 3>>)),
                      Some("mu"),
                      <<BdRef, RdRef, Some(Ref(RoutingDomainClass, "rd2"))>>)>>

RgGroupChoices ==
    {RedirectDestGroupObj(h, r, dests) :
        h \in {None, Some(CONST_SYMMETRIC + 1)},
        r \in {None, Some(0)},
        dests \in RnDestLists}

RnGroupChoices ==
    RgGroupChoices \cup {RedirectDestGroupObj(None, None, RnStrayDests)}

\* the controller sends the group u as grp
writeGroup(u, grp) ==
    /\ stRedir' = [stRedir EXCEPT ![u] = Some(grp)]
    /\ CtQueue(ContractListener_objectUpdated(RedirectDestGroupClass, u))
    /\ UNCHANGED <<stEpg, stFD, stBD, stRD, stNet, stContract, stAux,
                   domainVars, contractVars, redirGrpMap, l3Vars,
                   lastTask, compilerVars, runtimeVars>>

\* the controller sends the group, changed or as it is
RnWriteGroup ==
    \E u \in RedirGrps, grp \in RnGroupChoices : writeGroup(u, grp)

RedirNotifyNext ==
    \/ CtToggleContract
    \/ RunContractsTask
    \/ RnWriteGroup
    \/ RedirRemoveGroup
    \/ RunRedirectDestGroupTask

SpecRedirNotify == RedirInit /\ [][RedirNotifyNext]_vars

----------------------------------------------------------------------------
(* SpecRedirDests: events of redirect destinations.  As SpecRedirNotify    *)
(* with the destination lists that resolve, and the store also delivers    *)
(* events of the class RedirectDest, for which                             *)
(* the worker runs updateRedirectDestGroups over every entry of            *)
(* redirGrpMap.                                                            *)

\* the store delivers an event for the redirect destination d9: it was
\* written, or removed together with its group
RgDestEvent ==
    /\ CtQueue(ContractListener_objectUpdated(RedirectDestClass, "d9"))
    /\ pending' # pending
    /\ UNCHANGED <<storeVars, indexVars, lastTask, compilerVars, runtimeVars>>

RunRedirectDestGroupsTask ==
    \E k \in pending :
        /\ k.q = "cl"
        /\ k.cls = RedirectDestClass
        /\ pending' = pending \ {k}
        /\ executeUpdateRedirectDestGroups(k.uri)
        /\ UNCHANGED <<storeVars, domainVars, contractVars, l3Vars,
                       compilerVars, replay, secVars, queueVars, lockVars,
                       lifeVars, listenVars>>

\* the controller sends the group with destinations that resolve
RgWriteGroup ==
    \E u \in RedirGrps, grp \in RgGroupChoices : writeGroup(u, grp)

RedirDestsNext ==
    \/ CtToggleContract
    \/ RunContractsTask
    \/ RgWriteGroup
    \/ RedirRemoveGroup
    \/ RunRedirectDestGroupTask
    \/ RgDestEvent
    \/ RunRedirectDestGroupsTask

SpecRedirDests == RedirInit /\ [][RedirDestsNext]_vars

----------------------------------------------------------------------------
(* SpecSecGrp: security groups.  The controller writes and removes the     *)
(* security groups s1 and s2; the store delivers each change to            *)
(* SecGroupListener::objectUpdated, and also events for a security group   *)
(* it does not hold and events of the child classes.  One of the groups    *)
(* has a rule with remote-address relations to the Subnets object sns1,    *)
(* which the controller writes and removes.  The worker runs the queued    *)
(* updateSecGrps task.                                                     *)

\* the children of the Subnets object sns1: 10.1.2.3/8, an IPv6 subnet of
\* prefix 40, one whose address is no address and one without address
SgSubnets ==
    {SubnetObj("sn1", Some(IpText("dotted", <<10, 1, 2, 3>>)), Some(8)),
     SubnetObj("sn2", Some(IpText("colon", <<8193, 3512, 4660, 0, 0, 0, 0, 1>>)),
               Some(40)),
     SubnetObj("sn3", Some(IpText("dotted", <<10, 0, 0, 256>>)), Some(8)),
     SubnetObj("sn4", None, Some(8))}

\* a security group whose rule has remote-address relations: one to sns1
\* and one without target
SgRemoteGroup ==
    << << SecGroupRuleObj(1, Some("in"),
                          <<ClsRel(TRUE, Some(Classifier("cls1", 1)))>>,
                          <<AllowAction>>, <<Some("sns1"), None>>) >> >>

SgChoices ==
    {CtContractSubjects("c1"), CtContractSubjects("c2"), SgRemoteGroup}

SecGrpInit ==
    /\ EmptyStore
    /\ InitIndices
    /\ CompilerIdle
    /\ RuntimeIdle

\* SecGroupListener::objectUpdated(classId, s), whatever the store holds
SgDeliver(classId, s) ==
    /\ secGrpMap' = SecGroupListener_entry(classId, s, secGrpMap)
    /\ pending' = pending \cup {SecGroupListener_objectUpdated(classId, s)}

SgWrite ==
    \E s \in SecGrps, obj \in SgChoices :
        /\ stSecGrp[s] # Some(obj)
        /\ stSecGrp' = [stSecGrp EXCEPT ![s] = Some(obj)]
        /\ SgDeliver(SecGroupClass, s)
        /\ UNCHANGED <<storeVars, indexVars, lastTask, compilerVars, replay,
                       queueVars, lockVars, lifeVars, listenVars, callVars>>

SgRemove ==
    \E s \in SecGrps :
        /\ stSecGrp[s] # None
        /\ stSecGrp' = [stSecGrp EXCEPT ![s] = None]
        /\ SgDeliver(SecGroupClass, s)
        /\ UNCHANGED <<storeVars, indexVars, lastTask, compilerVars, replay,
                       queueVars, lockVars, lifeVars, listenVars, callVars>>

\* an event for a security group that the store does not hold
SgStaleEvent ==
    \E s \in SecGrps :
        /\ stSecGrp[s] = None
        /\ SgDeliver(SecGroupClass, s)
        /\ UNCHANGED <<storeVars, indexVars, lastTask, compilerVars, replay,
                       stSecGrp, queueVars, lockVars, lifeVars, listenVars,
                       callVars>>

\* an event of a child class: no entry is made
SgChildEvent ==
    \E s \in SecGrps :
        /\ SgDeliver("SecGroupRule", s)
        /\ SecGroupKey \notin pending
        /\ UNCHANGED <<storeVars, indexVars, lastTask, compilerVars, replay,
                       stSecGrp, queueVars, lockVars, lifeVars, listenVars,
                       callVars>>

\* the controller writes the Subnets object sns1 with its children, or
\* removes it
SgToggleSubnets ==
    /\ stAux' = [stAux EXCEPT
                   !.subnets["sns1"] = IF @ = None THEN Some(SgSubnets)
                                       ELSE None]
    /\ SgDeliver("Subnets", "sns1")
    /\ UNCHANGED <<stEpg, stFD, stBD, stRD, stNet, stContract, stRedir,
                   indexVars, lastTask, compilerVars, replay, stSecGrp,
                   queueVars, lockVars, lifeVars, listenVars, callVars>>

SgRun ==
    /\ SecGroupKey \in pending
    /\ pending' = pending \ {SecGroupKey}
    /\ updateSecGrps
    /\ UNCHANGED <<storeVars, indexVars, compilerVars, replay, stSecGrp,
                   queueVars, lockVars, lifeVars, listenVars, callVars>>

SecGrpNext ==
    \/ SgWrite
    \/ SgRemove
    \/ SgStaleEvent
    \/ SgChildEvent
    \/ SgToggleSubnets
    \/ SgRun

SpecSecGrp == SecGrpInit /\ [][SecGrpNext]_vars

----------------------------------------------------------------------------
(* SpecNat: NAT endpoint groups.  The routing domains rd1 and rd2 hold the *)
(* external networks n1 and n3, whose NAT endpoint group is g1 or g2.  The  *)
(* controller writes and removes the groups, the networks and the routing  *)
(* domains; each change is delivered to the domain sink and to the         *)
(* contract sink, and the worker runs the queued tasks.                    *)

NatNets == {"n1", "n3"}
NatGroupChoices ==
    {EpGroupObj(Some(InstCtx(Some(1), None)), None, None, {}, {}, {})}
NatRefChoices == {Some(NatRef(Some(e))) : e \in Groups}

NatInit ==
    /\ EmptyStore
    /\ InitIndices
    /\ CompilerIdle
    /\ RuntimeIdle

NatToggleGroup ==
    \E g \in {"g1"}, eg \in NatGroupChoices :
        /\ stEpg' = [stEpg EXCEPT
                       ![g] = IF stEpg[g] = None THEN Some(eg) ELSE None]
        /\ L3Queue(DomainListener_objectUpdated(EpGroupClass, g))
        /\ UNCHANGED <<stFD, stBD, stRD, stNet, stContract, stRedir, stAux,
                       indexVars, lastTask, compilerVars, runtimeVars>>

NatWriteNet ==
    \E n \in NatNets, nat \in NatRefChoices :
        /\ stNet' = [stNet EXCEPT ![n] = Some(L3ExternalNetworkObj(nat, {}, {}))]
        /\ stNet' # stNet
        /\ L3Queue(DomainListener_objectUpdated(L3ExternalNetworkClass, n)
                   \cup ContractListener_objectUpdated(RoutingDomainClass,
                                                       NetParent(n)))
        /\ UNCHANGED <<stEpg, stFD, stBD, stRD, stContract, stRedir, stAux,
                       indexVars, lastTask, compilerVars, runtimeVars>>

NatToggleRoutingDomain ==
    \E r \in RDs :
        /\ stRD' = [stRD EXCEPT
                      ![r] = IF stRD[r] = None
                             THEN Some(RoutingDomainObj(None, None))
                             ELSE None]
        /\ L3Queue(DomainListener_objectUpdated(RoutingDomainClass, r)
                   \cup ContractListener_objectUpdated(RoutingDomainClass, r))
        /\ UNCHANGED <<stEpg, stFD, stBD, stNet, stContract, stRedir, stAux,
                       indexVars, lastTask, compilerVars, runtimeVars>>

NatNext ==
    \/ NatToggleGroup
    \/ NatWriteNet
    \/ NatToggleRoutingDomain
    \/ RunDomainTask
    \/ RunL3NetsTask

SpecNat == NatInit /\ [][NatNext]_vars

----------------------------------------------------------------------------
(* SpecRuleEq: the comparison of policy rules.  Two rules are drawn whose  *)
(* seven fields range over two values each, and compared.                  *)

RuleValues ==
    {PolicyRule(dir, prio, Classifier(c, 1), allow, sns, redirect, grp) :
        dir \in {"in", "out"}, prio \in {MAX_POLICY_RULE_PRIORITY - 1,
                                         MAX_POLICY_RULE_PRIORITY},
        c \in {"a", "b"}, allow \in BOOLEAN,
        sns \in {{}, {<<"10.0.0.0", 8>>}},
        redirect \in BOOLEAN, grp \in {None, Some("rg1")}}

RuleEqInit ==
    /\ EmptyStore
    /\ InitIndices
    /\ CompilerIdle
    /\ RuntimeIdle

\* one comparison is made in a behaviour
RuleEqCall ==
    /\ callIn = None
    /\ \E lhs \in RuleValues, rhs \in RuleValues :
           /\ callIn' = Some(<<lhs, rhs>>)
           /\ callOut' = Some(PolicyRule_eq(lhs, rhs))
    /\ UNCHANGED <<storeVars, indexVars, pending, lastTask, compilerVars,
                   replay, secVars, queueVars, lockVars, lifeVars,
                   listenVars>>

RuleEqNext == RuleEqCall

SpecRuleEq == RuleEqInit /\ [][RuleEqNext]_vars

----------------------------------------------------------------------------
(* findSubnetForEp                                                         *)

\* a default-constructed boost::asio::ip::address: the IPv4 address 0.0.0.0
DefaultAddress == [v6 |-> FALSE, bytes |-> <<0, 0, 0, 0>>]

\* address::from_string(text, ec): the overload that reports a failure in
\* ec and returns a default-constructed address
address_from_string_ec(text) ==
    IF address_from_string(text) = None THEN DefaultAddress
    ELSE Get(address_from_string(text))

\* network::compute_ipv6_subnet: the network address of netAddr under a
\* prefix of prefixLen bits
compute_ipv6_subnet(netAddr, prefixLen) == maskedBytes(netAddr.bytes, prefixLen)

\* the body of the loop for one subnet: whether the subnet is returned
subnetMatches(sn, ip) ==
    IF sn.address = None \/ sn.prefixLen = None THEN FALSE
    ELSE LET netAddr == address_from_string_ec(Get(sn.address))
             prefixLen == Get(sn.prefixLen)
         IN  IF netAddr.v6 # ip.v6 THEN FALSE
             ELSE IF ~netAddr.v6
             THEN LET len == IF prefixLen > 32 THEN 32 ELSE prefixLen
                  IN  maskedBytes(netAddr.bytes, len) = maskedBytes(ip.bytes, len)
             ELSE LET len == IF prefixLen > 128 THEN 128 ELSE prefixLen
                  IN  maskedBytes(ip.bytes, len) = compute_ipv6_subnet(netAddr, len)

\* the loop over subnet_map in the order the container yields its entries
RECURSIVE subnetLoop(_, _, _, _)
subnetLoop(subnet_map, order, i, ip) ==
    IF i > Len(order) THEN None
    ELSE IF subnetMatches(subnet_map[order[i]], ip)
    THEN Some(subnet_map[order[i]])
    ELSE subnetLoop(subnet_map, order, i + 1, ip)

\* findSubnetForEp(eg, ip): the subnets the call can return
findSubnetForEp(eg, ip) ==
    IF eg \notin DOMAIN group_map THEN {None}
    ELSE {subnetLoop(group_map[eg].subnet_map, order, 1, ip) :
             order \in Perms(DOMAIN group_map[eg].subnet_map)}

----------------------------------------------------------------------------
(* SpecSubnet: the subnets of an endpoint group.  The Subnets object sns1  *)
(* holds up to MaxSubnets subnets, with and without address and prefix     *)
(* length, of both families, one with an address text that stands for no   *)
(* address; the controller writes and removes the endpoint group g1 that   *)
(* refers to sns1, the worker runs the queued updateDomain tasks, and a    *)
(* caller asks for the subnet of an endpoint address.                      *)

MaxSubnets == 2

SnSubnetChoices ==
    {SubnetObj("sn-bad", Some(IpText("dotted", <<10, 0, 0, 256>>)), Some(p)) :
        p \in {0, 8}}
    \cup {SubnetObj("sn-10", Some(IpText("dotted", <<10, 0, 0, 0>>)), Some(24)),
          SubnetObj("sn-host", Some(IpText("dotted", <<192, 168, 1, 1>>)),
                    Some(40)),
          SubnetObj("sn-v6", Some(IpText("colon", <<64768, 0, 0, 0, 0, 0, 0, 0>>)),
                    Some(12)),
          SubnetObj("sn-noaddr", None, Some(24)),
          SubnetObj("sn-nolen", Some(IpText("dotted", <<10, 0, 0, 0>>)), None)}

\* the children of a Subnets object: no two have the same URI
SnChildSets ==
    {kids \in SUBSET SnSubnetChoices :
        /\ Cardinality(kids) <= MaxSubnets
        /\ \A a, b \in kids : a.uri = b.uri => a = b}

SnAddresses ==
    {[v6 |-> FALSE, bytes |-> <<10, 0, 0, 5>>],
     [v6 |-> FALSE, bytes |-> <<0, 9, 9, 9>>],
     [v6 |-> FALSE, bytes |-> <<192, 168, 1, 1>>],
     [v6 |-> FALSE, bytes |-> <<192, 168, 1, 2>>],
     [v6 |-> TRUE, bytes |-> groupBytes(<<64769, 0, 0, 0, 0, 0, 0, 1>>, 1)],
     [v6 |-> TRUE, bytes |-> groupBytes(<<0, 0, 0, 0, 0, 0, 0, 1>>, 1)]}

SubnetInit ==
    /\ stEpg = [g \in Groups |-> None]
    /\ stFD = [f \in FDs |-> None]
    /\ stBD = [b \in BDs |-> None]
    /\ stRD = [r \in RDs |-> None]
    /\ stNet = [n \in Nets |-> None]
    /\ stContract = [c \in Contracts |-> None]
    /\ stRedir = [u \in RedirGrps |-> None]
    /\ \E kids \in SnChildSets :
           stAux = [subnets |-> [s \in SubnetsURIs |-> Some(kids)], rets |-> {}]
    /\ InitIndices
    /\ CompilerIdle
    /\ RuntimeIdle

\* the controller writes the endpoint group g1, or removes it
SnToggleEpGroup ==
    /\ stEpg' = [stEpg EXCEPT
                   !["g1"] = IF stEpg["g1"] = None
                             THEN Some(EpGroupObj(None, None, Some("sns1"),
                                                  {}, {}, {}))
                             ELSE None]
    /\ pending' = pending \cup DomainListener_objectUpdated(EpGroupClass, "g1")
    /\ UNCHANGED <<stFD, stBD, stRD, stNet, stContract, stRedir, stAux,
                   domainVars, contractVars, redirGrpMap, l3Vars,
                   lastTask, compilerVars, runtimeVars>>

\* a caller asks for the subnet of the endpoint address ip in the group eg
SnFindSubnetForEp ==
    \E eg \in {"g1"}, ip \in SnAddresses :
        \E r \in findSubnetForEp(eg, ip) :
            /\ callIn' = Some([eg |-> eg, ip |-> ip,
                               subnet_map |->
                                   IF eg \in DOMAIN group_map
                                   THEN group_map[eg].subnet_map
                                   ELSE EmptyMap])
            /\ callOut' = Some(r)
            /\ UNCHANGED <<storeVars, indexVars, pending, lastTask,
                           compilerVars, replay, secVars, queueVars, lockVars,
                           lifeVars, listenVars>>

SubnetNext ==
    \/ SnToggleEpGroup
    \/ RunDomainTask
    \/ SnFindSubnetForEp

SpecSubnet == SubnetInit /\ [][SubnetNext]_vars

----------------------------------------------------------------------------
(* SpecChain: forwarding-domain chains.  The store holds a flood domain,   *)
(* a bridge domain and a routing domain, with or without instance context  *)
(* and retention reference; the controller writes and removes the          *)
(* endpoint group g1 with a network reference to one of the three, and     *)
(* removes and sends again the flood domain and the bridge domain.  The    *)
(* worker runs the queued updateDomain tasks.                              *)

ChBridgeDomainChoices ==
    {BridgeDomainObj(Some(Ref(RoutingDomainClass, "rd1")), inst, None) :
        inst \in {None, Some(InstCtx(Some(2), None)),
                  Some(InstCtx(None, Some("ret2")))}}

ChRoutingDomainChoices ==
    {RoutingDomainObj(inst, None) :
        inst \in {None, Some(InstCtx(None, Some("ret3")))}}

ChFloodDomain == FloodDomainObj(Some(Ref(BridgeDomainClass, "bd1")), FALSE, None)

ChNetChoices ==
    {None, Some(Ref(FloodDomainClass, "fd1")),
     Some(Ref(BridgeDomainClass, "bd1")), Some(Ref(RoutingDomainClass, "rd1"))}

ChainInit ==
    /\ stEpg = [g \in Groups |-> None]
    /\ stFD = [f \in FDs |-> Some(ChFloodDomain)]
    /\ stBD \in {[b \in BDs |-> Some(bd)] : bd \in ChBridgeDomainChoices}
    /\ stRD \in {[r \in RDs |-> IF r = "rd1" THEN Some(rd) ELSE None] :
                    rd \in ChRoutingDomainChoices}
    /\ stNet = [n \in Nets |-> None]
    /\ stContract = [c \in Contracts |-> None]
    /\ stRedir = [u \in RedirGrps |-> None]
    /\ stAux = [subnets |-> [sn \in SubnetsURIs |-> None],
                rets |-> {"ret2", "ret3"}]
    /\ InitIndices
    /\ CompilerIdle
    /\ RuntimeIdle

ChainWriteEpGroup ==
    \E net \in ChNetChoices, inst \in {None, Some(InstCtx(Some(1), None))} :
        /\ stEpg' = [stEpg EXCEPT
                       !["g1"] = Some(EpGroupObj(inst, net, None, {}, {}, {}))]
        /\ stEpg' # stEpg
        /\ pending' = pending
                      \cup DomainListener_objectUpdated(EpGroupClass, "g1")
        /\ UNCHANGED <<stFD, stBD, stRD, stNet, stContract, stRedir, stAux,
                       domainVars, contractVars, redirGrpMap, l3Vars,
                       lastTask, compilerVars, runtimeVars>>

ChainRemoveEpGroup ==
    /\ stEpg["g1"] # None
    /\ stEpg' = [stEpg EXCEPT !["g1"] = None]
    /\ pending' = pending \cup DomainListener_objectUpdated(EpGroupClass, "g1")
    /\ UNCHANGED <<stFD, stBD, stRD, stNet, stContract, stRedir, stAux,
                   domainVars, contractVars, redirGrpMap, l3Vars,
                   lastTask, compilerVars, runtimeVars>>

ChainToggleFloodDomain ==
    /\ stFD' = [stFD EXCEPT
                  !["fd1"] = IF stFD["fd1"] = None THEN Some(ChFloodDomain)
                             ELSE None]
    /\ pending' = pending
                  \cup DomainListener_objectUpdated(FloodDomainClass, "fd1")
    /\ UNCHANGED <<stEpg, stBD, stRD, stNet, stContract, stRedir, stAux,
                   domainVars, contractVars, redirGrpMap, l3Vars,
                   lastTask, compilerVars, runtimeVars>>

ChainToggleBridgeDomain ==
    \E bd \in ChBridgeDomainChoices :
        /\ stBD' = [stBD EXCEPT
                      !["bd1"] = IF stBD["bd1"] = None THEN Some(bd) ELSE None]
        /\ pending' = pending
                      \cup DomainListener_objectUpdated(BridgeDomainClass, "bd1")
        /\ UNCHANGED <<stEpg, stFD, stRD, stNet, stContract, stRedir, stAux,
                       domainVars, contractVars, redirGrpMap, l3Vars,
                       lastTask, compilerVars, runtimeVars>>

ChainNext ==
    \/ ChainWriteEpGroup
    \/ ChainRemoveEpGroup
    \/ ChainToggleFloodDomain
    \/ ChainToggleBridgeDomain
    \/ RunDomainTask

SpecChain == ChainInit /\ [][ChainNext]_vars

----------------------------------------------------------------------------
(* SpecVnid: the vnid queries.  The endpoint group g1 refers to the bridge *)
(* domain bd1, which refers to the routing domain rd1; the group, the      *)
(* bridge domain and the routing domain each have an instance context or   *)
(* none, with encap ids that differ from one another.  The controller      *)
(* writes and removes the group and the bridge domain, the worker runs the *)
(* queued updateDomain tasks, and a caller asks for the vnids of g1.       *)

VnGroupInsts == {None, Some(InstCtx(None, None)), Some(InstCtx(Some(1), None))}
VnBridgeInsts == {None, Some(InstCtx(None, None)), Some(InstCtx(Some(2), None))}
VnRoutingInsts == {None, Some(InstCtx(Some(3), None))}

VnBridgeDomain(inst) ==
    BridgeDomainObj(Some(Ref(RoutingDomainClass, "rd1")), inst, None)

VnidInit ==
    /\ stEpg = [g \in Groups |-> None]
    /\ stFD = [f \in FDs |-> None]
    /\ stBD \in {[b \in BDs |-> Some(VnBridgeDomain(inst))] :
                    inst \in VnBridgeInsts}
    /\ stRD \in {[r \in RDs |->
                    IF r = "rd1" THEN Some(RoutingDomainObj(inst, None))
                    ELSE None] : inst \in VnRoutingInsts}
    /\ stNet = [n \in Nets |-> None]
    /\ stContract = [c \in Contracts |-> None]
    /\ stRedir = [u \in RedirGrps |-> None]
    /\ stAux = [subnets |-> [sn \in SubnetsURIs |-> None], rets |-> {}]
    /\ InitIndices
    /\ CompilerIdle
    /\ RuntimeIdle

VnWriteEpGroup ==
    \E inst \in VnGroupInsts,
       net \in {None, Some(Ref(BridgeDomainClass, "bd1"))} :
        /\ stEpg' = [stEpg EXCEPT
                       !["g1"] = Some(EpGroupObj(inst, net, None, {}, {}, {}))]
        /\ stEpg' # stEpg
        /\ pending' = pending
                      \cup DomainListener_objectUpdated(EpGroupClass, "g1")
        /\ UNCHANGED <<stFD, stBD, stRD, stNet, stContract, stRedir, stAux,
                       domainVars, contractVars, redirGrpMap, l3Vars,
                       lastTask, compilerVars, runtimeVars>>

VnToggleBridgeDomain ==
    \E inst \in VnBridgeInsts :
        /\ stBD' = [stBD EXCEPT
                      !["bd1"] = IF stBD["bd1"] = None
                                 THEN Some(VnBridgeDomain(inst)) ELSE None]
        /\ pending' = pending
                      \cup DomainListener_objectUpdated(BridgeDomainClass, "bd1")
        /\ UNCHANGED <<stEpg, stFD, stRD, stNet, stContract, stRedir, stAux,
                       domainVars, contractVars, redirGrpMap, l3Vars,
                       lastTask, compilerVars, runtimeVars>>

\* the group state a query finds for eg, if any
groupStateOf(eg) ==
    IF eg \in DOMAIN group_map THEN Some(group_map[eg]) ELSE None

\* a caller asks for the vnid of the bridge domain of the group g1
VnGetBDVnid ==
    \E r \in getBDVnidForGroup("g1") :
        /\ callIn' = Some([fn |-> "getBDVnidForGroup", eg |-> "g1",
                           gs |-> groupStateOf("g1")])
        /\ callOut' = Some(r)
        /\ UNCHANGED <<storeVars, indexVars, pending, lastTask, compilerVars,
                       replay, secVars, queueVars, lockVars, lifeVars,
                       listenVars>>

\* a caller asks for the vnid of the routing domain of the group g1
VnGetRDVnid ==
    \E r \in getRDVnidForGroup("g1") :
        /\ callIn' = Some([fn |-> "getRDVnidForGroup", eg |-> "g1",
                           gs |-> groupStateOf("g1")])
        /\ callOut' = Some(r)
        /\ UNCHANGED <<storeVars, indexVars, pending, lastTask, compilerVars,
                       replay, secVars, queueVars, lockVars, lifeVars,
                       listenVars>>

VnidNext ==
    \/ VnWriteEpGroup
    \/ ChainRemoveEpGroup
    \/ VnToggleBridgeDomain
    \/ RunDomainTask
    \/ VnGetBDVnid
    \/ VnGetRDVnid

SpecVnid == VnidInit /\ [][VnidNext]_vars

----------------------------------------------------------------------------
(* SpanRenderer: handleSpanUpdate and the transactions it sends            *)

\* a source endpoint of a session: the port it mirrors and the direction
SourceEndpoint(port, dir) == [port |-> port, dir |-> dir]

\* a SessionState: name, source endpoints, destination address, admin
\* state and ERSPAN version
SessionState(name, srcEps, destination, adminState, version) ==
    [name |-> name, srcEps |-> srcEps, destination |-> destination,
     adminState |-> adminState, version |-> version]

\* address::is_unspecified: the IPv4 address 0.0.0.0 or the IPv6 address ::
is_unspecified(addr) == \A i \in 1..Len(addr.bytes) : addr.bytes[i] = 0

\* what OvsdbState holds for a session: the mirror of its name, if one is
\* provisioned, with the names of its source and destination ports, the
\* parameters of its ERSPAN port, if there is one, and the names of the
\* other rows of the Port table; uuids are written as the names they belong
\* to
OvsdbState(mirror, erspan, ports) ==
    [mirror |-> mirror, erspan |-> erspan, ports |-> ports]
MirrorRow(src_ports, dst_ports) == [src_ports |-> src_ports, dst_ports |-> dst_ports]
ErspanParams(remoteIp, version) == [remoteIp |-> remoteIp, version |-> version]

\* the mirror a default-constructed opflexagent::mirror is
NoMirror == MirrorRow({}, {})

\* the ports a session selects as sources and as destinations
srcPortsOf(srcEps) == {e.port : e \in {s \in srcEps : s.dir \in {"bi", "out"}}}
dstPortsOf(srcEps) == {e.port : e \in {s \in srcEps : s.dir \in {"bi", "in"}}}

\* deleteMirror(sessionName): one request, unless no mirror has the name
deleteMirror(db, name) ==
    IF db.mirror = None THEN <<>>
    ELSE <<[op |-> "deleteMirror", name |-> name]>>

\* deleteErspanPort(portName): one request, unless no port has the name
deleteErspanPort(db, name) ==
    IF db.erspan = None THEN <<>>
    ELSE <<[op |-> "deleteErspanPort", name |-> name]>>

addErspanPort(name, remoteIp, version) ==
    <<[op |-> "addErspanPort", name |-> name, remoteIp |-> remoteIp,
       version |-> version]>>

\* createMirror(sess, srcPorts, dstPorts): the ports that have a uuid in
\* the Port table go into select_src_port and select_dst_port, and
\* output_port is set if the ERSPAN port of the session has one
createMirror(db, name, srcPorts, dstPorts) ==
    <<[op |-> "createMirror", name |-> name,
       srcPorts |-> srcPorts \cap db.ports,
       dstPorts |-> dstPorts \cap db.ports,
       outputPort |-> IF db.erspan = None THEN None ELSE Some(name)]>>

\* sessionDeleted(sessionName)
sessionDeleted(db, name) == deleteMirror(db, name) \o deleteErspanPort(db, name)

\* updateMirrorConfig(seSt)
updateMirrorConfig(db, seSt) ==
    deleteErspanPort(db, seSt.name)
    \o addErspanPort(seSt.name, to_string(seSt.destination), seSt.version)
    \o deleteMirror(db, seSt.name)
    \o createMirror(db, seSt.name, srcPortsOf(seSt.srcEps),
                    dstPortsOf(seSt.srcEps))

\* the first test of handleSpanUpdate on the session
sessionTest(seSt) ==
    \/ seSt.srcEps # {}
    \/ ~is_unspecified(seSt.destination)
    \/ seSt.adminState = 0

\* the comparison of the session with what is provisioned, after the first
\* test: the requests it sends
compareWithProvisioned(db, seSt) ==
    LET mir == IF db.mirror = None THEN NoMirror ELSE Get(db.mirror)
        srcPort == srcPortsOf(seSt.srcEps)
        dstPort == dstPortsOf(seSt.srcEps)
    IN  IF Cardinality(srcPort) # Cardinality(mir.src_ports)
           \/ Cardinality(dstPort) # Cardinality(mir.dst_ports)
        THEN updateMirrorConfig(db, seSt)
        ELSE IF ~(mir.src_ports \subseteq srcPort)
                \/ srcPort \ mir.src_ports # {}
        THEN updateMirrorConfig(db, seSt)
        ELSE IF ~(mir.dst_ports \subseteq dstPort)
                \/ dstPort \ mir.dst_ports # {}
        THEN updateMirrorConfig(db, seSt)
        ELSE IF db.erspan = None THEN <<>>
        ELSE IF Get(db.erspan).remoteIp # to_string(seSt.destination)
                \/ Get(db.erspan).version # seSt.version
        THEN updateMirrorConfig(db, seSt)
        ELSE <<>>

\* handleSpanUpdate(spanURI): seSt is what getSessionState returns,
\* connected what connect() returns and db the OVSDB state; the requests
\* sent, in order, and whether the connection timer was started
handleSpanUpdate(seSt, connected, db) ==
    IF seSt = None THEN [sent |-> <<>>, timerStarted |-> FALSE]
    ELSE IF ~connected THEN [sent |-> <<>>, timerStarted |-> TRUE]
    ELSE IF sessionTest(Get(seSt))
    THEN [sent |-> (IF db.mirror # None
                    THEN sessionDeleted(db, Get(seSt).name) ELSE <<>>)
                   \o compareWithProvisioned(db, Get(seSt)),
          timerStarted |-> FALSE]
    ELSE [sent |-> <<>>, timerStarted |-> FALSE]

----------------------------------------------------------------------------
(* SpecSpan: one span update.  A session with up to MaxSrcEps source       *)
(* endpoints on two ports, with or without destination, admin state 0 or   *)
(* 1, is updated while OVSDB holds a mirror and an ERSPAN port for it, or  *)
(* does not, and has Port rows for both, one or none of the two ports; the *)
(* renderer is connected or is not.                                        *)

MaxSrcEps == 2

SpanPorts == {"p1", "p2"}

\* the destinations 0.0.0.0, :: and 10.0.0.1
SpanAddresses ==
    {Get(address_from_string(IpText("dotted", <<0, 0, 0, 0>>))),
     Get(address_from_string(IpText("colon", <<0, 0, 0, 0, 0, 0, 0, 0>>))),
     Get(address_from_string(IpText("dotted", <<10, 0, 0, 1>>)))}

SpanSrcEpSets ==
    {eps \in SUBSET {SourceEndpoint(p, d) :
                        p \in SpanPorts, d \in {"in", "out", "bi"}} :
        Cardinality(eps) <= MaxSrcEps}

SpanSessions ==
    {SessionState("s", eps, dst, adm, ver) :
        eps \in SpanSrcEpSets, dst \in SpanAddresses,
        adm \in {0, 1}, ver \in {1, 2}}

SpanOvsdbStates ==
    {OvsdbState(mir, ers, ports) :
        mir \in {None} \cup {Some(MirrorRow(s, d)) :
                                s \in SUBSET SpanPorts, d \in SUBSET SpanPorts},
        ers \in {None} \cup {Some(ErspanParams(to_string(ip), ver)) :
                                ip \in SpanAddresses, ver \in {1, 2}},
        ports \in SUBSET SpanPorts}

SpanInit ==
    /\ EmptyStore
    /\ InitIndices
    /\ CompilerIdle
    /\ RuntimeIdle

\* spanUpdated(spanURI): one update is made in a behaviour
SpanUpdated ==
    /\ callIn = None
    /\ \E seSt \in {None} \cup {Some(s) : s \in SpanSessions},
          connected \in BOOLEAN, db \in SpanOvsdbStates :
           /\ callIn' = Some([seSt |-> seSt, connected |-> connected,
                              db |-> db])
           /\ callOut' = Some(handleSpanUpdate(seSt, connected, db))
    /\ UNCHANGED <<storeVars, indexVars, pending, lastTask, compilerVars,
                   replay, secVars, queueVars, lockVars, lifeVars,
                   listenVars>>

SpanNext == SpanUpdated

SpecSpan == SpanInit /\ [][SpanNext]_vars

----------------------------------------------------------------------------
(* SpecCycle: network references of any shape.  The flood domain fd1 and   *)
(* the bridge domain bd1 each refer to nothing, to a flood domain, a       *)
(* bridge domain or a routing domain, or to an object of a class that is   *)
(* no forwarding domain; the controller writes the endpoint group g1 with  *)
(* a reference to one of the two and rewires the two domains.  The worker  *)
(* runs the queued updateDomain tasks whose walks end; CyWalk is the call  *)
(* of updateEPGDomains for g1, and callOut keeps whether it returns.       *)

CyNetChoices ==
    {None, Some(Ref(FloodDomainClass, "fd1")),
     Some(Ref(BridgeDomainClass, "bd1")), Some(Ref(RoutingDomainClass, "rd1")),
     Some(Ref(EpGroupClass, "g1"))}

CycleInit ==
    /\ stEpg = [g \in Groups |-> None]
    /\ stFD \in {[f \in FDs |-> Some(FloodDomainObj(net, FALSE, None))] :
                    net \in CyNetChoices}
    /\ stBD \in {[b \in BDs |-> Some(BridgeDomainObj(net, None, None))] :
                    net \in CyNetChoices}
    /\ stRD = [r \in RDs |->
                 IF r = "rd1" THEN Some(RoutingDomainObj(None, None)) ELSE None]
    /\ stNet = [n \in Nets |-> None]
    /\ stContract = [c \in Contracts |-> None]
    /\ stRedir = [u \in RedirGrps |-> None]
    /\ stAux = [subnets |-> [sn \in SubnetsURIs |-> None], rets |-> {}]
    /\ InitIndices
    /\ CompilerIdle
    /\ RuntimeIdle

CyWriteEpGroup ==
    \E net \in {Some(Ref(FloodDomainClass, "fd1")),
                Some(Ref(BridgeDomainClass, "bd1"))} :
        /\ stEpg' = [stEpg EXCEPT
                       !["g1"] = Some(EpGroupObj(None, net, None, {}, {}, {}))]
        /\ stEpg' # stEpg
        /\ pending' = pending
                      \cup DomainListener_objectUpdated(EpGroupClass, "g1")
        /\ UNCHANGED <<stFD, stBD, stRD, stNet, stContract, stRedir, stAux,
                       domainVars, contractVars, redirGrpMap, l3Vars,
                       lastTask, compilerVars, runtimeVars>>

CyRewireFloodDomain ==
    \E net \in CyNetChoices :
        /\ stFD' = [stFD EXCEPT !["fd1"] = Some(FloodDomainObj(net, FALSE, None))]
        /\ stFD' # stFD
        /\ pending' = pending
                      \cup DomainListener_objectUpdated(FloodDomainClass, "fd1")
        /\ UNCHANGED <<stEpg, stBD, stRD, stNet, stContract, stRedir, stAux,
                       domainVars, contractVars, redirGrpMap, l3Vars,
                       lastTask, compilerVars, runtimeVars>>

CyRewireBridgeDomain ==
    \E net \in CyNetChoices :
        /\ stBD' = [stBD EXCEPT !["bd1"] = Some(BridgeDomainObj(net, None, None))]
        /\ stBD' # stBD
        /\ pending' = pending
                      \cup DomainListener_objectUpdated(BridgeDomainClass, "bd1")
        /\ UNCHANGED <<stEpg, stFD, stRD, stNet, stContract, stRedir, stAux,
                       domainVars, contractVars, redirGrpMap, l3Vars,
                       lastTask, compilerVars, runtimeVars>>

\* updateEPGDomains is called for the group g1 of the store
CyWalk ==
    /\ stEpg["g1"] # None
    /\ \E r \in {updateEPGDomains("g1", withGroupEntry(EpGroupClass, "g1"),
                                  vnid_map)} :
           /\ callIn' = Some([egURI |-> "g1", net |-> Get(stEpg["g1"]).net,
                              fd |-> Get(stFD["fd1"]).net,
                              bd |-> Get(stBD["bd1"]).net])
           /\ callOut' = Some([returns |-> ~r.diverged])
    /\ UNCHANGED <<storeVars, indexVars, pending, lastTask, compilerVars,
                   replay, secVars, queueVars, lockVars, lifeVars,
                   listenVars>>

CycleNext ==
    \/ CyWriteEpGroup
    \/ CyRewireFloodDomain
    \/ CyRewireBridgeDomain
    \/ RunDomainTask
    \/ CyWalk

SpecCycle == CycleInit /\ [][CycleNext]_vars

----------------------------------------------------------------------------
(* SpecPrio: the loop over the rules of one subject, a rule at a time.     *)
(* The subject has up to MaxRules rules, already in the order of the       *)
(* sort; each is drawn from PrioRuleChoices: a rule without direction, and *)
(* rules with no classifier, one, and MaxClassifiers of them.  A step      *)
(* resumes compileRules for the next rule from the state the loop was      *)
(* left in; callIn holds that state and the number of rules compiled,      *)
(* ruleIn the rule, callOut the state after it.  newRules is emptied       *)
(* before every rule, so that it holds the entries of that rule only.      *)

ManyClassifiers(m) ==
    [j \in 1..m |-> ClsRel(TRUE, Some(Classifier(<<1, m + 1 - j>>, m + 1 - j)))]

PrioRuleChoices ==
    {RuleObj(1, None, ManyClassifiers(1), <<AllowAction>>)}
    \cup {RuleObj(1, Some("in"), ManyClassifiers(m), <<AllowAction>>) :
             m \in {0, 1, MaxClassifiers}}

PrioInit ==
    /\ EmptyStore
    /\ InitIndices
    /\ CompilerIdle
    /\ RuntimeIdle

\* the state of the loop over the rules: as the subject loop sets it up
\* before the first rule, and as the last rule left it
loopState ==
    IF callOut = None
    THEN [i |-> 1, newRules |-> <<>>, newRedirGrps |-> {},
          rulePrio |-> MAX_POLICY_RULE_PRIORITY, compiled |-> 0]
    ELSE Get(callOut)

\* the state that compileRules is resumed from for one more rule, and the
\* state it leaves
resumeFrom(st) ==
    [i |-> 1, newRules |-> <<>>, newRedirGrps |-> st.newRedirGrps,
     rulePrio |-> st.rulePrio, compiled |-> st.compiled]
afterRule(st, r) ==
    [i |-> r.i, newRules |-> r.newRules, newRedirGrps |-> r.newRedirGrps,
     rulePrio |-> r.rulePrio, compiled |-> st.compiled + 1]

\* the loop over the rules runs its body for the next rule of the subject
CompileNextRule ==
    /\ loopState.compiled < MaxRules
    /\ \E rule \in PrioRuleChoices :
          /\ ruleIn' = Some(<< <<rule>> >>)
          /\ callIn' = Some(resumeFrom(loopState))
          /\ callOut' = Some(afterRule(loopState,
                                 compileRules(<<rule>>,
                                              resumeFrom(loopState))))
    /\ UNCHANGED <<storeVars, indexVars, pending, lastTask, ruleOut, replay,
                   secVars, queueVars, lockVars, lifeVars, listenVars>>

PrioNext == CompileNextRule

SpecPrio == PrioInit /\ [][PrioNext]_vars

----------------------------------------------------------------------------
(* SpecQueue: the task queue itself.  The controller writes and removes a  *)
(* contract, a security group and a redirect group; every change is an     *)
(* event for the sink of its class, which dispatches a task.  taskQueue    *)
(* holds the dispatched tasks in order and the worker starts the one at    *)
(* its head.  queueLog counts, for each of the two class-wide keys, the    *)
(* events dispatched since the key was last absent from the queue and the  *)
(* runs of its routine since then; a burst is at most MaxBurst events.     *)

MaxBurst == 3

noteEvent(log, key, queue, task) ==
    [log EXCEPT ![key] = IF queuedAt(queue, task) = {}
                         THEN [events |-> 1, runs |-> 0]
                         ELSE [@ EXCEPT !.events = @ + 1]]

noteRun(log, key) == [log EXCEPT ![key].runs = @ + 1]

QueueInit ==
    /\ EmptyStore
    /\ InitIndices
    /\ CompilerIdle
    /\ RuntimeIdle

QueueContractEvent ==
    \E c \in {"c1"} :
        /\ queueLog["contract"].events < MaxBurst
        /\ stContract' = [stContract EXCEPT
                            ![c] = IF stContract[c] = None
                                   THEN Some(CtContractSubjects(c)) ELSE None]
        /\ contractMap' = ContractListener_entry(ContractClass, c, contractMap)
        /\ taskQueue' = dispatch(taskQueue, ContractKey)
        /\ queueLog' = noteEvent(queueLog, "contract", taskQueue, ContractKey)
        /\ UNCHANGED <<stEpg, stFD, stBD, stRD, stNet, stRedir, stAux,
                       domainVars, groupContractMap, redirGrpMap, l3Vars,
                       pending, lastTask, compilerVars, replay, lockVars,
                   lifeVars, listenVars, callVars, secVars>>

QueueSecGroupEvent ==
    \E sg \in SecGrps :
        /\ queueLog["secgroup"].events < MaxBurst
        /\ stSecGrp' = [stSecGrp EXCEPT
                          ![sg] = IF stSecGrp[sg] = None
                                  THEN Some(CtContractSubjects("c1")) ELSE None]
        /\ secGrpMap' = SecGroupListener_entry(SecGroupClass, sg, secGrpMap)
        /\ taskQueue' = dispatch(taskQueue,
                                 SecGroupListener_objectUpdated(SecGroupClass, sg))
        /\ queueLog' = noteEvent(queueLog, "secgroup", taskQueue, SecGroupKey)
        /\ UNCHANGED <<storeVars, domainVars, contractVars, redirGrpMap,
                       l3Vars, pending, lastTask, compilerVars, replay, lockVars,
                   lifeVars, listenVars, callVars>>

QueueRedirectGroupEvent ==
    \E u \in RedirGrps :
        /\ Len(taskQueue) < MaxBurst
        /\ stRedir' = [stRedir EXCEPT
                         ![u] = IF stRedir[u] = None
                                THEN Some(RedirectDestGroupObj(None, None, <<>>))
                                ELSE None]
        /\ taskQueue' = dispatch(taskQueue, ClKey(RedirectDestGroupClass, u))
        /\ UNCHANGED <<stEpg, stFD, stBD, stRD, stNet, stContract, stAux,
                       domainVars, contractVars, redirGrpMap, l3Vars,
                       pending, lastTask, compilerVars, replay, lockVars,
                   lifeVars, listenVars, callVars, secVars,
                       queueLog>>

\* the worker starts the task at the head of the queue
QueueRunContracts ==
    /\ taskQueue # <<>>
    /\ Head(taskQueue) = ContractKey
    /\ taskQueue' = Tail(taskQueue)
    /\ queueLog' = noteRun(queueLog, "contract")
    /\ updateContracts
    /\ UNCHANGED <<storeVars, domainVars, groupContractMap, l3Vars,
                   pending, compilerVars, replay, lockVars,
                   lifeVars, listenVars, callVars, secVars>>

QueueRunSecGrps ==
    /\ taskQueue # <<>>
    /\ Head(taskQueue) = SecGroupKey
    /\ taskQueue' = Tail(taskQueue)
    /\ queueLog' = noteRun(queueLog, "secgroup")
    /\ updateSecGrps
    /\ UNCHANGED <<storeVars, domainVars, contractVars, redirGrpMap, l3Vars,
                   pending, compilerVars, replay, lockVars,
                   lifeVars, listenVars, callVars, stSecGrp>>

QueueRunRedirectDestGroup ==
    /\ taskQueue # <<>>
    /\ Head(taskQueue).q = "cl"
    /\ Head(taskQueue).cls = RedirectDestGroupClass
    /\ taskQueue' = Tail(taskQueue)
    /\ executeUpdateRedirectDestGroup(Head(taskQueue).uri)
    /\ UNCHANGED <<storeVars, domainVars, contractVars, l3Vars,
                   pending, compilerVars, replay, lockVars,
                   lifeVars, listenVars, callVars, secVars, queueLog>>

QueueNext ==
    \/ QueueContractEvent
    \/ QueueSecGroupEvent
    \/ QueueRedirectGroupEvent
    \/ QueueRunContracts
    \/ QueueRunSecGrps
    \/ QueueRunRedirectDestGroup

SpecQueue == QueueInit /\ [][QueueNext]_vars

----------------------------------------------------------------------------
(* SpecLive: the queue drains.  The controller toggles a contract, a       *)
(* security group, a redirect group and an endpoint group, at most         *)
(* MaxEvents times in all; every change is an event for the sinks of its   *)
(* class.  The worker takes the task at the head of the queue (callIn      *)
(* holds the task it has started) and then completes it; an event that     *)
(* arrives while a task of its key is running dispatches a new task.       *)
(* queueLog records the events delivered, the dispatches that replaced a   *)
(* queued task, the keys with an event that no run has started after       *)
(* (uncovered) and the keys whose run is under way (covering).  The        *)
(* contract and the security group have no subjects.                       *)

MaxEvents == 3

LiveInit ==
    /\ EmptyStore
    /\ InitIndices
    /\ CompilerIdle
    /\ replay = NoReplay
    /\ stSecGrp = [s \in SecGrps |-> None]
    /\ secGrpMap = EmptyMap
    /\ taskQueue = <<>>
    /\ queueLog = [delivered |-> 0, coalesced |-> 0, uncovered |-> {},
                   covering |-> {}]
    /\ state_mutex = None
    /\ listener_mutex = None
    /\ threads = [t \in Threads |-> IdleThread]
    /\ policyListeners = <<>>
    /\ delivery = NoDelivery
    /\ callIn = None
    /\ callOut = None
    /\ registered = startRegistrations

\* the queue and the log after the sinks have dispatched the tasks of the
\* sequence `tasks` for one event
RECURSIVE dispatchAll(_, _, _)
dispatchAll(queue, log, tasks) ==
    IF tasks = <<>> THEN [queue |-> queue, log |-> log]
    ELSE dispatchAll(dispatch(queue, Head(tasks)),
                     [log EXCEPT
                        !.coalesced = IF queuedAt(queue, Head(tasks)) # {}
                                      THEN @ + 1 ELSE @,
                        !.uncovered = @ \cup {Head(tasks)}],
                     Tail(tasks))

LvDelivered(tasks) ==
    /\ queueLog.delivered < MaxEvents
    /\ \E r \in {dispatchAll(taskQueue,
                             [queueLog EXCEPT !.delivered = @ + 1], tasks)} :
           /\ taskQueue' = r.queue
           /\ queueLog' = r.log

LvContractEvent ==
    /\ LvDelivered(<<ContractKey>>)
    /\ stContract' = [stContract EXCEPT
                        !["c1"] = IF stContract["c1"] = None
                                  THEN Some(<<>>) ELSE None]
    /\ contractMap' = ContractListener_entry(ContractClass, "c1", contractMap)
    /\ UNCHANGED <<stEpg, stFD, stBD, stRD, stNet, stRedir, stAux,
                   domainVars, groupContractMap, redirGrpMap, l3Vars,
                   pending, lastTask, compilerVars, replay, secVars, lockVars,
                   lifeVars, listenVars, callVars>>

LvSecGroupEvent ==
    /\ LvDelivered(<<SecGroupListener_objectUpdated(SecGroupClass, "s1")>>)
    /\ stSecGrp' = [stSecGrp EXCEPT
                      !["s1"] = IF stSecGrp["s1"] = None
                                THEN Some(<<>>) ELSE None]
    /\ secGrpMap' = SecGroupListener_entry(SecGroupClass, "s1", secGrpMap)
    /\ UNCHANGED <<storeVars, indexVars, pending, lastTask, compilerVars,
                   replay, lockVars, lifeVars, listenVars, callVars>>

LvRedirectGroupEvent ==
    /\ LvDelivered(<<ClKey(RedirectDestGroupClass, "rg1")>>)
    /\ stRedir' = [stRedir EXCEPT
                     !["rg1"] = IF stRedir["rg1"] = None
                                THEN Some(RedirectDestGroupObj(None, None, <<>>))
                                ELSE None]
    /\ UNCHANGED <<stEpg, stFD, stBD, stRD, stNet, stContract, stAux,
                   indexVars, pending, lastTask, compilerVars, replay, secVars,
                   lockVars, lifeVars, listenVars, callVars>>

\* an endpoint group is an object of the domain sink and of the contract
\* sink
LvGroupEvent ==
    /\ LvDelivered(<<DlKey(EpGroupClass, "g1"), ClKey(EpGroupClass, "g1")>>)
    /\ stEpg' = [stEpg EXCEPT
                   !["g1"] = IF stEpg["g1"] = None
                             THEN Some(EpGroupObj(None, None, None,
                                                  {"c1"}, {}, {}))
                             ELSE None]
    /\ UNCHANGED <<stFD, stBD, stRD, stNet, stContract, stRedir, stAux,
                   indexVars, pending, lastTask, compilerVars, replay, secVars,
                   lockVars, lifeVars, listenVars, callVars>>

\* the worker, idle, starts the task at the head of the queue
LvStart ==
    /\ callIn = None
    /\ taskQueue # <<>>
    /\ callIn' = Some(Head(taskQueue))
    /\ taskQueue' = Tail(taskQueue)
    /\ queueLog' = [queueLog EXCEPT
                      !.uncovered = @ \ {Head(taskQueue)},
                      !.covering = @ \cup {Head(taskQueue)}]
    /\ UNCHANGED <<storeVars, indexVars, pending, lastTask, compilerVars,
                   replay, secVars, lockVars, lifeVars, listenVars, callOut>>

\* the task the worker has started returns
LvReturned ==
    /\ callIn' = None
    /\ queueLog' = [queueLog EXCEPT !.covering = @ \ {Get(callIn)}]
    /\ UNCHANGED <<taskQueue, callOut>>

LvCompleteContracts ==
    /\ callIn = Some(ContractKey)
    /\ updateContracts
    /\ LvReturned
    /\ UNCHANGED <<storeVars, domainVars, groupContractMap, l3Vars, pending,
                   compilerVars, replay, secVars, lockVars, lifeVars,
                   listenVars>>

LvCompleteSecGrps ==
    /\ callIn = Some(SecGroupKey)
    /\ updateSecGrps
    /\ LvReturned
    /\ UNCHANGED <<storeVars, indexVars, pending, compilerVars, replay,
                   stSecGrp, lockVars, lifeVars, listenVars>>

LvCompleteRedirectDestGroup ==
    /\ callIn = Some(ClKey(RedirectDestGroupClass, "rg1"))
    /\ executeUpdateRedirectDestGroup("rg1")
    /\ LvReturned
    /\ UNCHANGED <<storeVars, domainVars, contractVars, l3Vars, pending,
                   compilerVars, replay, secVars, lockVars, lifeVars,
                   listenVars>>

LvCompleteDomain ==
    /\ callIn = Some(DlKey(EpGroupClass, "g1"))
    /\ updateDomain(EpGroupClass, "g1")
    /\ LvReturned
    /\ UNCHANGED <<storeVars, contractVars, redirGrpMap, l3Vars, pending,
                   compilerVars, replay, secVars, lockVars, lifeVars,
                   listenVars>>

LvCompleteGroupContracts ==
    /\ callIn = Some(ClKey(EpGroupClass, "g1"))
    /\ executeUpdateGroupContracts(EpGroupClass, "g1")
    /\ LvReturned
    /\ UNCHANGED <<storeVars, domainVars, redirGrpMap, l3Vars, pending,
                   compilerVars, replay, secVars, lockVars, lifeVars,
                   listenVars>>

LvComplete ==
    \/ LvCompleteContracts
    \/ LvCompleteSecGrps
    \/ LvCompleteRedirectDestGroup
    \/ LvCompleteDomain
    \/ LvCompleteGroupContracts

LiveNext ==
    \/ LvContractEvent
    \/ LvSecGroupEvent
    \/ LvRedirectGroupEvent
    \/ LvGroupEvent
    \/ LvStart
    \/ LvComplete

\* the worker thread runs whenever the queue holds a task, and a task it
\* has started returns
SpecLive ==
    /\ LiveInit
    /\ [][LiveNext]_vars
    /\ WF_vars(LvStart)
    /\ WF_vars(LvComplete)

----------------------------------------------------------------------------
(* SpecReplay: the same events twice.  The store holds some of an endpoint *)
(* group, a contract and a redirect group, with the bridge domain and the  *)
(* routing domain they need, and does not change.  The store delivers one  *)
(* event for every object it holds to the sinks registered for the class   *)
(* of the object; the worker runs the tasks; when the queue is empty the   *)
(* store delivers the same events once more.                               *)

RpBridgeDomain ==
    Some(BridgeDomainObj(Some(Ref(RoutingDomainClass, "rd1")),
                         Some(InstCtx(Some(1), None)), None))

RpGroupChoices ==
    {None,
     Some(EpGroupObj(Some(InstCtx(Some(1), None)),
                     Some(Ref(BridgeDomainClass, "bd1")), None,
                     {"c1"}, {}, {})),
     Some(EpGroupObj(None, None, None, {}, {"c1"}, {}))}

RpContractChoices == {None, Some(CtContractSubjects("c1"))}

RpRedirChoices ==
    {None,
     Some(RedirectDestGroupObj(None, None,
            <<RedirectDestObj("d9", Some(IpText("dotted", <<10, 0, 0, 9>>)),
                              Some("m9"), <<BdRef, RdRef>>)>>)),
     Some(RedirectDestGroupObj(None, None, <<>>))}

ReplayInit ==
    /\ stEpg \in {[g \in Groups |-> IF g = "g1" THEN eg ELSE None] :
                     eg \in RpGroupChoices}
    /\ stFD = [f \in FDs |-> None]
    /\ stBD = [b \in BDs |-> RpBridgeDomain]
    /\ stRD = [r \in RDs |-> IF r = "rd1" THEN RdRoutingDomain ELSE None]
    /\ stNet = [n \in Nets |-> None]
    /\ stContract \in {[c \in Contracts |-> IF c = "c1" THEN ct ELSE None] :
                          ct \in RpContractChoices}
    /\ stRedir \in {[u \in RedirGrps |-> rg] : rg \in RpRedirChoices}
    /\ stAux = [subnets |-> [sn \in SubnetsURIs |-> None], rets |-> {}]
    /\ InitIndices
    /\ CompilerIdle
    /\ RuntimeIdle

\* the tasks that one event for every object of the store dispatches
ReplayKeys ==
    (IF stEpg["g1"] # None
     THEN DomainListener_objectUpdated(EpGroupClass, "g1")
          \cup ContractListener_objectUpdated(EpGroupClass, "g1")
     ELSE {})
    \cup (IF stContract["c1"] # None
          THEN ContractListener_objectUpdated(ContractClass, "c1") ELSE {})
    \cup DomainListener_objectUpdated(RoutingDomainClass, "rd1")
    \cup ContractListener_objectUpdated(RoutingDomainClass, "rd1")
    \cup (IF stRedir["rg1"] # None
          THEN ContractListener_objectUpdated(RedirectDestGroupClass, "rg1")
          ELSE {})

Indices ==
    [group_map |-> group_map, vnid_map |-> vnid_map,
     contractMap |-> contractMap, groupContractMap |-> groupContractMap,
     redirGrpMap |-> redirGrpMap, rd_map |-> rd_map, l3n_map |-> l3n_map,
     nat_epg_l3_ext |-> nat_epg_l3_ext, secGrpMap |-> secGrpMap]

\* the store delivers the events, for the first or for the second time
ReplayDeliver ==
    /\ pending = {}
    /\ replay.round < 2
    /\ pending' = ReplayKeys
    /\ contractMap' = IF stContract["c1"] # None
                      THEN ContractListener_entry(ContractClass, "c1",
                                                  contractMap)
                      ELSE contractMap
    /\ replay' = [round |-> replay.round + 1,
                  indices |-> IF replay.round = 1 THEN Some(Indices) ELSE None,
                  notified |-> {}]
    /\ UNCHANGED <<storeVars, domainVars, groupContractMap, redirGrpMap,
                   l3Vars, lastTask, compilerVars, secVars, queueVars,
                   lockVars, lifeVars, listenVars, callVars>>

\* the round records the egDomainUpdated and contractUpdated notifications
\* of the task that has just run
ReplayNote ==
    replay' = [replay EXCEPT
                 !.notified = @ \cup {<<"egDomainUpdated", u>> :
                                         u \in lastTask'.egNotif}
                                \cup {<<"contractUpdated", u>> :
                                         u \in lastTask'.ctNotif}]

ReplayRunDomainTask ==
    \E k \in pending :
        /\ k.q = "dl"
        /\ pending' = pending \ {k}
        /\ updateDomain(k.cls, k.uri)
        /\ ReplayNote
        /\ UNCHANGED <<storeVars, contractVars, redirGrpMap, l3Vars,
                       compilerVars, secVars, queueVars,
                   lockVars, lifeVars, listenVars, callVars>>

ReplayRunGroupContractsTask ==
    \E k \in pending :
        /\ k.q = "cl"
        /\ k.cls \in {EpGroupClass, L3ExternalNetworkClass}
        /\ pending' = pending \ {k}
        /\ executeUpdateGroupContracts(k.cls, k.uri)
        /\ ReplayNote
        /\ UNCHANGED <<storeVars, domainVars, redirGrpMap, l3Vars,
                       compilerVars, secVars, queueVars,
                   lockVars, lifeVars, listenVars, callVars>>

ReplayRunL3NetsTask ==
    \E k \in pending :
        /\ k.q = "cl"
        /\ k.cls = RoutingDomainClass
        /\ pending' = pending \ {k}
        /\ executeUpdateL3Nets(k.uri)
        /\ ReplayNote
        /\ UNCHANGED <<storeVars, domainVars, redirGrpMap, compilerVars, secVars, queueVars,
                   lockVars, lifeVars, listenVars, callVars>>

ReplayRunRedirectDestGroupTask ==
    \E k \in pending :
        /\ k.q = "cl"
        /\ k.cls = RedirectDestGroupClass
        /\ pending' = pending \ {k}
        /\ executeUpdateRedirectDestGroup(k.uri)
        /\ ReplayNote
        /\ UNCHANGED <<storeVars, domainVars, contractVars, l3Vars,
                       compilerVars, secVars, queueVars,
                   lockVars, lifeVars, listenVars, callVars>>

ReplayRunContractsTask ==
    /\ ContractKey \in pending
    /\ pending' = pending \ {ContractKey}
    /\ updateContracts
    /\ ReplayNote
    /\ UNCHANGED <<storeVars, domainVars, groupContractMap, l3Vars,
                   compilerVars, secVars, queueVars,
                   lockVars, lifeVars, listenVars, callVars>>

ReplayNext ==
    \/ ReplayDeliver
    \/ ReplayRunDomainTask
    \/ ReplayRunGroupContractsTask
    \/ ReplayRunL3NetsTask
    \/ ReplayRunRedirectDestGroupTask
    \/ ReplayRunContractsTask

SpecReplay == ReplayInit /\ [][ReplayNext]_vars

----------------------------------------------------------------------------
(* stop(), as the thread main runs it beside the other threads.            *)

\* the manager is running when its sinks are registered
Running == stopUnregistrations \subseteq registered

\* the tasks objectUpdated(cls, uri) of a sink dispatches, when the sink is
\* registered for the class
delivered(sink, cls, keys) ==
    IF Registration(sink, cls) \in registered THEN keys ELSE {}

\* stop() is called and unregisters the sinks; it then waits for
\* state_mutex
StopUnregister ==
    /\ Running
    /\ threads["main"].pc = "idle"
    /\ stopUnregister
    /\ threads' = [threads EXCEPT !["main"].pc = "wantState"]
    /\ UNCHANGED <<storeVars, indexVars, pending, lastTask, compilerVars,
                   replay, secVars, queueVars, state_mutex, listener_mutex,
                   listenVars, callVars>>

\* stop() takes state_mutex, clears the three maps and returns
StopClear ==
    /\ threads["main"].pc = "wantState"
    /\ canLock(state_mutex)
    /\ stopClear
    /\ threads' = [threads EXCEPT !["main"].pc = "idle"]
    /\ UNCHANGED <<storeVars, rd_map, contractVars, l3Vars, pending, lastTask,
                   compilerVars, replay, secVars, queueVars, state_mutex,
                   listener_mutex, lifeVars, listenVars, callVars>>

----------------------------------------------------------------------------
(* SpecLocks: the two mutexes.  Four threads: the worker of the task      *)
(* queue, the thread on which the MO store runs objectUpdated, a reader    *)
(* that calls queries, and the thread main, which calls stop() once.  A    *)
(* routine takes one step to ask for a mutex and another to get it, so     *)
(* that a thread can be seen waiting.  The store writes and removes the    *)
(* contract c1, writes the endpoint group g1 and the security group s1,    *)
(* removes the bridge domain bd1 and changes the platform config; the      *)
(* worker runs updateContracts, updateDomain, updateGroupContracts and     *)
(* updateSecGrps; a listener is registered whose callbacks call a query.   *)

LockInit ==
    /\ stEpg = [g \in Groups |-> None]
    /\ stFD = [f \in FDs |-> None]
    /\ stBD = [b \in BDs |-> RpBridgeDomain]
    /\ stRD = [r \in RDs |-> IF r = "rd1" THEN RdRoutingDomain ELSE None]
    /\ stNet = [n \in Nets |-> None]
    /\ stContract = [c \in Contracts |-> None]
    /\ stRedir = [u \in RedirGrps |-> None]
    /\ stAux = [subnets |-> [sn \in SubnetsURIs |-> None], rets |-> {}]
    /\ InitIndices
    /\ CompilerIdle
    /\ RuntimeIdle

\* thread t goes to pc, carrying rec
Goes(t, rec) == threads' = [threads EXCEPT ![t] = rec]
At(t, pc) == threads[t].pc = pc

restVars == <<compilerVars, replay, secVars, queueVars, lifeVars, listenVars, callVars>>

\* the worker takes a task from the queue and calls its routine
WorkerStart ==
    /\ At("worker", "idle")
    /\ \E k \in pending :
          /\ pending' = pending \ {k}
          /\ Goes("worker", [IdleThread EXCEPT !.pc = "wantState",
                                               !.task = Some(k)])
    /\ UNCHANGED <<storeVars, indexVars, lastTask, state_mutex,
                   listener_mutex, restVars>>

\* unique_lock<mutex> guard(state_mutex) of the update routine
WorkerLock ==
    /\ At("worker", "wantState")
    /\ canLock(state_mutex)
    /\ state_mutex' = lockedBy("worker")
    /\ Goes("worker", [threads["worker"] EXCEPT !.pc = "update"])
    /\ UNCHANGED <<storeVars, indexVars, pending, lastTask, listener_mutex,
                   restVars>>

\* the update routine has changed the indices and goes on to notify
WorkerUpdated ==
    /\ state_mutex' = unlockBeforeNotify("worker")
    /\ Goes("worker", [threads["worker"] EXCEPT
                         !.pc = "notify",
                         !.toNotify = notificationsOf(lastTask'),
                         !.after = Some(Indices')])

WorkerUpdateContracts ==
    /\ At("worker", "update")
    /\ Get(threads["worker"].task) = ContractKey
    /\ updateContracts
    /\ UNCHANGED <<storeVars, domainVars, groupContractMap, l3Vars, pending,
                   listener_mutex, restVars>>
    /\ WorkerUpdated

WorkerUpdateDomain ==
    /\ At("worker", "update")
    /\ Get(threads["worker"].task).q = "dl"
    /\ updateDomain(Get(threads["worker"].task).cls,
                    Get(threads["worker"].task).uri)
    /\ UNCHANGED <<storeVars, contractVars, redirGrpMap, l3Vars, pending,
                   listener_mutex, restVars>>
    /\ WorkerUpdated

WorkerUpdateGroupContracts ==
    /\ At("worker", "update")
    /\ Get(threads["worker"].task).q = "cl"
    /\ executeUpdateGroupContracts(Get(threads["worker"].task).cls,
                                   Get(threads["worker"].task).uri)
    /\ UNCHANGED <<storeVars, domainVars, redirGrpMap, l3Vars, pending,
                   listener_mutex, restVars>>
    /\ WorkerUpdated

WorkerUpdateSecGrps ==
    /\ At("worker", "update")
    /\ Get(threads["worker"].task) = SecGroupKey
    /\ updateSecGrps
    /\ UNCHANGED <<storeVars, indexVars, pending, listener_mutex,
                   compilerVars, replay, stSecGrp, queueVars, lifeVars,
                   listenVars, callVars>>
    /\ WorkerUpdated

\* notify*: lock_guard<mutex> guard(listener_mutex), then the callback of
\* the listener for one of the notifications
NotifyLock(t) ==
    /\ At(t, "notify")
    /\ canLock(listener_mutex)
    /\ listener_mutex' = lockedBy(t)
    /\ \E n \in threads[t].toNotify :
          Goes(t, [threads[t] EXCEPT !.pc = "callback", !.current = Some(n)])
    /\ UNCHANGED <<storeVars, indexVars, pending, lastTask, state_mutex,
                   restVars>>

\* the callback calls a query: lock_guard<mutex> guard(state_mutex)
CallbackQueryLock(t) ==
    /\ At(t, "callback")
    /\ canLock(state_mutex)
    /\ state_mutex' = lockedBy(t)
    /\ Goes(t, [threads[t] EXCEPT !.pc = "query"])
    /\ UNCHANGED <<storeVars, indexVars, pending, lastTask, listener_mutex,
                   restVars>>

\* the query returns, then the callback, then notify*
CallbackReturn(t) ==
    /\ At(t, "query")
    /\ state_mutex' = None
    /\ listener_mutex' = None
    /\ Goes(t, [threads[t] EXCEPT
                  !.pc = "notify",
                  !.toNotify = @ \ {Get(threads[t].current)},
                  !.current = None])
    /\ UNCHANGED <<storeVars, indexVars, pending, lastTask, restVars>>

\* the last notification is delivered: the routine returns, and the sets
\* of what it had to notify go with it
NotifyDone(t) ==
    /\ At(t, "notify")
    /\ threads[t].toNotify = {}
    /\ Goes(t, IdleThread)
    /\ lastTask' = IF t = "worker" THEN NoTask ELSE lastTask
    /\ UNCHANGED <<storeVars, indexVars, pending, state_mutex,
                   listener_mutex, restVars>>

\* the store changes the contract c1 and calls
\* ContractListener::objectUpdated(Contract, c1), if the sink is registered
StoreContractEvent ==
    /\ At("store", "idle")
    /\ stContract' = [stContract EXCEPT
                        !["c1"] = IF stContract["c1"] = None
                                  THEN Some(CtContractSubjects("c1"))
                                  ELSE None]
    /\ Goes("store",
            IF Registration("contract", ContractClass) \in registered
            THEN [IdleThread EXCEPT !.pc = "wantEntry",
                                    !.task = Some(ContractKey)]
            ELSE IdleThread)
    /\ UNCHANGED <<stEpg, stFD, stBD, stRD, stNet, stRedir, stAux, indexVars,
                   pending, lastTask, state_mutex, listener_mutex, restVars>>

\* the store writes the security group s1 and calls
\* SecGroupListener::objectUpdated(SecGroup, s1), if the sink is registered
StoreSecGroupEvent ==
    /\ At("store", "idle")
    /\ stSecGrp["s1"] = None
    /\ stSecGrp' = [stSecGrp EXCEPT !["s1"] = Some(CtContractSubjects("c1"))]
    /\ Goes("store",
            IF Registration("secgroup", SecGroupClass) \in registered
            THEN [IdleThread EXCEPT !.pc = "wantEntry",
                                    !.task = Some(SecGroupKey)]
            ELSE IdleThread)
    /\ UNCHANGED <<storeVars, indexVars, pending, lastTask, state_mutex,
                   listener_mutex, compilerVars, replay, secGrpMap, queueVars,
                   lifeVars, listenVars, callVars>>

\* unique_lock<mutex> guard(pmanager.state_mutex) of the callback
StoreEntryLock ==
    /\ At("store", "wantEntry")
    /\ canLock(state_mutex)
    /\ state_mutex' = lockedBy("store")
    /\ Goes("store", [threads["store"] EXCEPT !.pc = "entry"])
    /\ UNCHANGED <<storeVars, indexVars, pending, lastTask, listener_mutex,
                   restVars>>

\* pmanager.contractMap[uri], the end of the block, and the dispatch
StoreEntryInsert ==
    /\ At("store", "entry")
    /\ threads["store"].task = Some(ContractKey)
    /\ contractMap' = ContractListener_entry(ContractClass, "c1", contractMap)
    /\ state_mutex' = None
    /\ pending' = pending
                  \cup ContractListener_objectUpdated(ContractClass, "c1")
    /\ Goes("store", IdleThread)
    /\ UNCHANGED <<storeVars, domainVars, groupContractMap, redirGrpMap,
                   l3Vars, lastTask, listener_mutex, restVars>>

\* pmanager.secGrpMap[uri], the end of the block, and the dispatch
StoreSecEntryInsert ==
    /\ At("store", "entry")
    /\ threads["store"].task = Some(SecGroupKey)
    /\ secGrpMap' = SecGroupListener_entry(SecGroupClass, "s1", secGrpMap)
    /\ state_mutex' = None
    /\ pending' = pending
                  \cup {SecGroupListener_objectUpdated(SecGroupClass, "s1")}
    /\ Goes("store", IdleThread)
    /\ UNCHANGED <<storeVars, indexVars, lastTask, listener_mutex,
                   compilerVars, replay, stSecGrp, queueVars, lifeVars,
                   listenVars, callVars>>

\* the endpoint group the store writes: it is in the bridge domain bd1 and
\* provides the contract c1
LockGroup ==
    EpGroupObj(Some(InstCtx(Some(1), None)),
               Some(Ref(BridgeDomainClass, "bd1")), None, {"c1"}, {}, {})

\* the store writes the endpoint group g1 and calls objectUpdated of the
\* domain sink and of the contract sink, which dispatch
StoreGroupEvent ==
    /\ At("store", "idle")
    /\ stEpg["g1"] = None
    /\ stEpg' = [stEpg EXCEPT !["g1"] = Some(LockGroup)]
    /\ pending' = pending
                  \cup delivered("domain", EpGroupClass,
                         DomainListener_objectUpdated(EpGroupClass, "g1"))
                  \cup delivered("contract", EpGroupClass,
                         ContractListener_objectUpdated(EpGroupClass, "g1"))
    /\ UNCHANGED <<stFD, stBD, stRD, stNet, stContract, stRedir, stAux,
                   indexVars, lastTask, lockVars, restVars>>

\* the store removes the bridge domain bd1 and calls objectUpdated of the
\* domain sink, which dispatches updateDomain(BridgeDomain, bd1)
StoreBridgeDomainEvent ==
    /\ At("store", "idle")
    /\ stBD["bd1"] # None
    /\ stBD' = [stBD EXCEPT !["bd1"] = None]
    /\ pending' = pending
                  \cup delivered("domain", BridgeDomainClass,
                         DomainListener_objectUpdated(BridgeDomainClass,
                                                      "bd1"))
    /\ UNCHANGED <<stEpg, stFD, stRD, stNet, stContract, stRedir, stAux,
                   indexVars, lastTask, lockVars, restVars>>

\* the store changes the platform config and calls
\* ConfigListener::objectUpdated, which calls notifyConfig
StoreConfigEvent ==
    /\ At("store", "idle")
    /\ Goes("store", [IdleThread EXCEPT
                        !.pc = "notify",
                        !.toNotify = {<<"configUpdated", "config">>}])
    /\ UNCHANGED <<storeVars, indexVars, pending, lastTask, state_mutex,
                   listener_mutex, restVars>>

\* the reader calls a query
ReaderCall ==
    /\ At("reader", "idle")
    /\ Goes("reader", [IdleThread EXCEPT !.pc = "wantRead"])
    /\ UNCHANGED <<storeVars, indexVars, pending, lastTask, state_mutex,
                   listener_mutex, restVars>>

ReaderLock ==
    /\ At("reader", "wantRead")
    /\ canLock(state_mutex)
    /\ state_mutex' = lockedBy("reader")
    /\ Goes("reader", [threads["reader"] EXCEPT !.pc = "read"])
    /\ UNCHANGED <<storeVars, indexVars, pending, lastTask, listener_mutex,
                   restVars>>

ReaderReturn ==
    /\ At("reader", "read")
    /\ state_mutex' = None
    /\ Goes("reader", IdleThread)
    /\ UNCHANGED <<storeVars, indexVars, pending, lastTask, listener_mutex,
                   restVars>>

Notifiers == {"worker", "store"}

LockNext ==
    \/ WorkerStart
    \/ WorkerLock
    \/ WorkerUpdateContracts
    \/ WorkerUpdateDomain
    \/ WorkerUpdateGroupContracts
    \/ WorkerUpdateSecGrps
    \/ \E t \in Notifiers : NotifyLock(t)
    \/ \E t \in Notifiers : CallbackQueryLock(t)
    \/ \E t \in Notifiers : CallbackReturn(t)
    \/ \E t \in Notifiers : NotifyDone(t)
    \/ StoreContractEvent
    \/ StoreEntryLock
    \/ StoreEntryInsert
    \/ StoreSecGroupEvent
    \/ StoreSecEntryInsert
    \/ StoreGroupEvent
    \/ StoreBridgeDomainEvent
    \/ StoreConfigEvent
    \/ ReaderCall
    \/ ReaderLock
    \/ ReaderReturn
    \/ StopUnregister
    \/ StopClear

SpecLocks == LockInit /\ [][LockNext]_vars

----------------------------------------------------------------------------
(* SpecStop: start() and stop().  The manager is constructed, started,     *)
(* stopped and started again; stop() unregisters the sinks in one step     *)
(* and clears the maps in another, once it has state_mutex, and the store  *)
(* and the worker run in between.  The store writes and removes contract   *)
(* c1, the endpoint group g1 and the security group s1, and calls          *)
(* objectUpdated of the sinks registered for the class; the worker runs    *)
(* the tasks they dispatch.                                                *)

StopInit ==
    /\ stEpg = [g \in Groups |-> None]
    /\ stFD = [f \in FDs |-> None]
    /\ stBD = [b \in BDs |-> RpBridgeDomain]
    /\ stRD = [r \in RDs |-> IF r = "rd1" THEN RdRoutingDomain ELSE None]
    /\ stNet = [n \in Nets |-> None]
    /\ stContract = [c \in Contracts |-> None]
    /\ stRedir = [u \in RedirGrps |-> None]
    /\ stAux = [subnets |-> [sn \in SubnetsURIs |-> None], rets |-> {}]
    /\ InitIndices
    /\ CompilerIdle
    /\ RuntimeConstructed
    /\ registered = {}

\* start() and stop() are called by the thread main, one at a time
StopStart ==
    /\ ~Running
    /\ threads["main"].pc = "idle"
    /\ start
    /\ UNCHANGED <<storeVars, indexVars, pending, lastTask, compilerVars,
                   replay, secVars, queueVars, lockVars, listenVars,
                   callVars>>

StopContractEvent ==
    /\ stContract' = [stContract EXCEPT
                        !["c1"] = IF stContract["c1"] = None
                                  THEN Some(CtContractSubjects("c1"))
                                  ELSE None]
    /\ contractMap' = IF Registration("contract", ContractClass) \in registered
                      THEN ContractListener_entry(ContractClass, "c1",
                                                  contractMap)
                      ELSE contractMap
    /\ pending' = pending
                  \cup delivered("contract", ContractClass,
                         ContractListener_objectUpdated(ContractClass, "c1"))
    /\ UNCHANGED <<stEpg, stFD, stBD, stRD, stNet, stRedir, stAux, domainVars,
                   groupContractMap, redirGrpMap, l3Vars, lastTask,
                   compilerVars, runtimeVars>>

StopGroupEvent ==
    /\ \E eg \in RpGroupChoices :
          /\ stEpg' = [stEpg EXCEPT !["g1"] = eg]
          /\ stEpg' # stEpg
    /\ pending' = pending
                  \cup delivered("domain", EpGroupClass,
                         DomainListener_objectUpdated(EpGroupClass, "g1"))
                  \cup delivered("contract", EpGroupClass,
                         ContractListener_objectUpdated(EpGroupClass, "g1"))
    /\ UNCHANGED <<stFD, stBD, stRD, stNet, stContract, stRedir, stAux,
                   indexVars, lastTask, compilerVars, runtimeVars>>

StopSecGroupEvent ==
    /\ stSecGrp' = [stSecGrp EXCEPT
                      !["s1"] = IF stSecGrp["s1"] = None
                                THEN Some(CtContractSubjects("c1")) ELSE None]
    /\ secGrpMap' = IF Registration("secgroup", SecGroupClass) \in registered
                    THEN SecGroupListener_entry(SecGroupClass, "s1", secGrpMap)
                    ELSE secGrpMap
    /\ pending' = pending
                  \cup delivered("secgroup", SecGroupClass,
                         {SecGroupListener_objectUpdated(SecGroupClass, "s1")})
    /\ UNCHANGED <<storeVars, indexVars, lastTask, compilerVars, replay,
                   queueVars, lockVars, lifeVars, listenVars, callVars>>

StopRunSecGrps ==
    /\ SecGroupKey \in pending
    /\ pending' = pending \ {SecGroupKey}
    /\ updateSecGrps
    /\ UNCHANGED <<storeVars, indexVars, compilerVars, replay, stSecGrp,
                   queueVars, lockVars, lifeVars, listenVars, callVars>>

StopNext ==
    \/ StopStart
    \/ StopUnregister
    \/ StopClear
    \/ StopContractEvent
    \/ StopGroupEvent
    \/ StopSecGroupEvent
    \/ StopRunSecGrps
    \/ RunDomainTask
    \/ RunGroupContractsTask
    \/ RunContractsTask

SpecStop == StopInit /\ [][StopNext]_vars

----------------------------------------------------------------------------
(* SpecNotify: the policy listeners.  Listeners register and unregister;   *)
(* the controller writes and removes the contracts c1 and c2; the worker   *)
(* runs updateContracts and then makes the notifyContract calls one at a   *)
(* time, each on the list as it is then, so that a listener can register   *)
(* or unregister between two of them; any of the callbacks may throw.      *)

MaxListeners == 2

NotifyInit ==
    /\ EmptyStore
    /\ InitIndices
    /\ CompilerIdle
    /\ RuntimeIdle

NfRegister ==
    \E l \in Listeners :
        /\ Len(policyListeners) < MaxListeners
        /\ policyListeners' = registerListener(policyListeners, l)
        /\ UNCHANGED <<storeVars, indexVars, pending, lastTask, compilerVars,
                       replay, secVars, queueVars, lockVars, lifeVars,
                       delivery, callVars>>

NfUnregister ==
    \E l \in Listeners :
        /\ policyListeners' = unregisterListener(policyListeners, l)
        /\ policyListeners' # policyListeners
        /\ UNCHANGED <<storeVars, indexVars, pending, lastTask, compilerVars,
                       replay, secVars, queueVars, lockVars, lifeVars,
                       delivery, callVars>>

\* the worker runs the task of key "contract" up to guard.unlock() and
\* enters the notify loop
NfRunContracts ==
    /\ delivery.ended # "notifying"
    /\ ContractKey \in pending
    /\ pending' = pending \ {ContractKey}
    /\ updateContracts
    /\ delivery' = startNotify(notificationsOf(lastTask'))
    /\ UNCHANGED <<storeVars, domainVars, groupContractMap, l3Vars,
                   compilerVars, replay, secVars, queueVars, lockVars,
                   lifeVars, policyListeners, callVars>>

\* the worker makes the next notifyContract(u) call of the loop, in the
\* order the unordered set yields; any of the callbacks may throw
NfNotify ==
    /\ delivery.ended = "notifying"
    /\ \E n \in delivery.left, failing \in SUBSET Listeners :
          delivery' \in notifyLoop(delivery, policyListeners, n,
                                   failing \X {n})
    /\ UNCHANGED <<storeVars, indexVars, pending, lastTask, compilerVars,
                   replay, secVars, queueVars, lockVars, lifeVars,
                   policyListeners, callVars>>

NotifyNext ==
    \/ NfRegister
    \/ NfUnregister
    \/ CtToggleContract
    \/ NfRunContracts
    \/ NfNotify

SpecNotify == NotifyInit /\ [][NotifyNext]_vars

----------------------------------------------------------------------------
(* Properties of the vnid index *)

\* C1: after every completed updateDomain task, every group of group_map
\* whose stored instance context has an encap id v is the group vnid_map
\* holds for v: getGroupForVnid(getVnidForGroup(g)) = g.
C1_VnidOfGroupMapsBack ==
    \A g \in DOMAIN group_map :
        getVnidForGroup(g) # None
            => getGroupForVnid(Get(getVnidForGroup(g))) = Some(g)

\* C2: after every completed updateDomain task, every entry vnid_map[v] = g
\* names a group g of group_map whose stored instance context has encap id
\* v; no entry is left for a group that updateDomain removed.
C2_VnidEntriesHaveGroups ==
    \A v \in DOMAIN vnid_map :
        /\ vnid_map[v] \in DOMAIN group_map
        /\ getVnidForGroup(vnid_map[v]) = Some(v)

----------------------------------------------------------------------------
(* Properties of the contract index *)

\* the holders of contract references: endpoint groups and external networks
Holders == Groups \cup Nets

groupsOf(c, field) ==
    IF c \in DOMAIN contractMap THEN contractMap[c][field] ELSE {}
contractsOf(g, field) ==
    IF g \in DOMAIN groupContractMap THEN groupContractMap[g][field] ELSE {}

\* C3: after every update task (updateGroupContracts, updateL3Nets,
\* updateContracts), g is in contractMap[c].providerGroups exactly when c
\* is in groupContractMap[g].contractsProvided, and likewise for the
\* consumer and the intra sets.
C3_ContractReferenceIntegrity ==
    \A g \in Holders, c \in Contracts :
        /\ g \in groupsOf(c, "providerGroups")
             <=> c \in contractsOf(g, "contractsProvided")
        /\ g \in groupsOf(c, "consumerGroups")
             <=> c \in contractsOf(g, "contractsConsumed")
        /\ g \in groupsOf(c, "intraGroups")
             <=> c \in contractsOf(g, "contractsIntra")

\* a task has run in every role, and two holders share a contract
C3_Witness ==
    /\ "g1" \in groupsOf("c1", "consumerGroups")
    /\ "g1" \in groupsOf("c1", "intraGroups")
    /\ "g2" \in groupsOf("c1", "consumerGroups")
    /\ "n1" \in groupsOf("c1", "providerGroups")
    /\ lastTask.op = "updateContracts"

\* contractMap holds no contract whose three sets are empty and whose
\* object does not resolve
NoUnusedContract ==
    \A c \in DOMAIN contractMap :
        ~(noGroups(contractMap[c]) /\ stContract[c] = None)

\* the step of a task that has run to completion
TaskCompleted == pending' # pending /\ pending' \subseteq pending
UpdateContractsCompleted == ContractKey \in pending /\ ContractKey \notin pending'

\* C4, as stated: after every completed update task, contractMap holds no
\* contract whose three group sets are all empty and whose object cannot be
\* resolved.
C4_NoUnusedContractAfterAnyTask ==
    [][TaskCompleted => NoUnusedContract']_vars

\* C4, amended: after every completed updateContracts task, contractMap
\* holds no contract whose three group sets are all empty and whose object
\* cannot be resolved; after another task such an entry may wait for the
\* updateContracts task that its removal has queued.
C4_NoUnusedContractAfterUpdateContracts ==
    [][UpdateContractsCompleted => NoUnusedContract']_vars

\* updateContracts has erased a contract that nothing refers to
C4_Witness ==
    /\ lastTask.op = "updateContracts"
    /\ \E c \in lastTask.ctNotif :
          /\ c \notin DOMAIN contractMap
          /\ stContract[c] = None
          /\ \A g \in Holders :
                /\ c \notin contractsOf(g, "contractsProvided")
                /\ c \notin contractsOf(g, "contractsConsumed")
                /\ c \notin contractsOf(g, "contractsIntra")

groupSets(cs) ==
    <<cs.providerGroups, cs.consumerGroups, cs.intraGroups>>

referenced(gcm, c) ==
    \E g \in DOMAIN gcm :
        \/ c \in gcm[g].contractsProvided
        \/ c \in gcm[g].contractsConsumed
        \/ c \in gcm[g].contractsIntra

\* C5: while a group refers to contract c, the removal of c from the store
\* never removes contractMap[c]: an updateContracts task that finds c
\* unresolvable keeps the entry, leaves its three group sets as they were
\* and empties its rule list; a step erases the entry only when no group
\* refers to c any more.
C5_ReferencedContractRetained ==
    [][\A c \in DOMAIN contractMap :
          /\ (UpdateContractsCompleted /\ stContract[c] = None
                /\ ~noGroups(contractMap[c]))
               => /\ c \in DOMAIN contractMap'
                  /\ groupSets(contractMap'[c]) = groupSets(contractMap[c])
                  /\ contractMap'[c].rules = <<>>
          /\ c \notin DOMAIN contractMap'
               => ~referenced(groupContractMap', c)]_vars

\* updateContracts has found a referenced contract removed and kept it
C5_Witness ==
    /\ lastTask.op = "updateContracts"
    /\ \E c \in lastTask.ctNotif :
          /\ stContract[c] = None
          /\ c \in DOMAIN contractMap
          /\ ~noGroups(contractMap[c])
          /\ contractMap[c].rules = <<>>
          /\ referenced(groupContractMap, c)

\* the contracts recorded with the redirect group u, and the contracts one
\* of whose stored rules redirects to u
ctrctSetOf(u) ==
    IF u \in DOMAIN redirGrpMap THEN redirGrpMap[u].ctrctSet ELSE {}
redirectingTo(u) ==
    {c \in DOMAIN contractMap :
        \E i \in 1..Len(contractMap[c].rules) :
            contractMap[c].rules[i].redirGrp = Some(u)}

RedirectIndexConsistent ==
    /\ \A u \in RedirGrps : ctrctSetOf(u) = redirectingTo(u)
    /\ \A c \in Contracts, u \in RedirGrps :
          stContract[c] = None => c \notin ctrctSetOf(u)

\* C22: after every completed updateContracts pass a contract c is in
\* redirGrpMap[u].ctrctSet iff a rule stored in contractMap[c].rules
\* redirects to u, and a contract removed from the store is in no ctrctSet.
C22_CtrctSetMatchesRules ==
    [][UpdateContractsCompleted => RedirectIndexConsistent']_vars

\* C25: for an L3 external network only provided contracts are recorded:
\* the network is in no contract's consumerGroups or intraGroups, and its
\* groupContractMap entry has empty contractsConsumed and contractsIntra.
C25_NetworksOnlyProvide ==
    \A n \in Nets :
        /\ \A c \in DOMAIN contractMap :
              /\ n \notin contractMap[c].consumerGroups
              /\ n \notin contractMap[c].intraGroups
        /\ n \in DOMAIN groupContractMap
              => /\ groupContractMap[n].contractsConsumed = {}
                 /\ groupContractMap[n].contractsIntra = {}

----------------------------------------------------------------------------
(* Properties of the external network indices *)

\* the step of an updateL3Nets task that has run to completion
UpdateL3NetsCompleted ==
    \E k \in pending \ pending' : k.q = "cl" /\ k.cls = RoutingDomainClass

\* l3n_map[n].natEpg = e exactly when n is in nat_epg_l3_ext[e], and no key
\* of nat_epg_l3_ext has an empty set
NatIndexConsistent ==
    /\ \A n \in Nets, e \in Groups :
          (n \in DOMAIN l3n_map /\ l3n_map[n].natEpg = Some(e))
             <=> (e \in DOMAIN nat_epg_l3_ext /\ n \in nat_epg_l3_ext[e])
    /\ \A e \in DOMAIN nat_epg_l3_ext : nat_epg_l3_ext[e] # {}

\* C6: after every updateL3Nets, l3n_map[n].natEpg = e exactly when n is in
\* nat_epg_l3_ext[e], and no key of nat_epg_l3_ext maps to an empty set,
\* also when the routing domain of a network disappears.
C6_NatReverseIndex ==
    [][UpdateL3NetsCompleted => NatIndexConsistent']_vars

\* every network of rd_map[r].extNets has an l3n_map entry whose routing
\* domain is r
ExtNetsIndexed ==
    \A r \in DOMAIN rd_map :
        \A n \in rd_map[r].extNets :
            n \in DOMAIN l3n_map /\ l3n_map[n].routingDomain = Some(r)

\* C7: after every updateL3Nets, every network n of rd_map[r].extNets has
\* an l3n_map entry with routing domain r; when the task found r
\* unresolvable, rd_map[r] and the l3n_map entries of the networks that
\* were attached to r are gone.
C7_ExternalNetworkIntegrity ==
    [][UpdateL3NetsCompleted
         => /\ ExtNetsIndexed'
            /\ \A k \in pending \ pending' :
                  stRD[k.uri] = None
                     => /\ k.uri \notin DOMAIN rd_map'
                        /\ \A n \in rdExtNets(k.uri) :
                              n \notin DOMAIN l3n_map']_vars

\* updateL3Nets has dropped rd1, which had left the store with its two
\* networks still below it
C7_Witness ==
    /\ lastTask.op = "updateL3Nets"
    /\ lastTask.uri = "rd1"
    /\ stRD["rd1"] = None
    /\ stNet["n1"] # None
    /\ stNet["n2"] # None
    /\ "n1" \in DOMAIN groupContractMap
    /\ "rd1" \notin DOMAIN rd_map
    /\ l3n_map = EmptyMap

----------------------------------------------------------------------------
(* Properties of the compiled rule list *)

\* the elements of s in ascending order of their order attribute, elements
\* of equal order in the order they have in s
rankOf(s, i) ==
    1 + Cardinality({j \in 1..Len(s) :
                        \/ s[j].order < s[i].order
                        \/ (s[j].order = s[i].order /\ j < i)})
SortedByOrder(s) ==
    [r \in 1..Len(s) |-> s[CHOOSE i \in 1..Len(s) : rankOf(s, i) = r]]

isDirected(rule) == rule.dir # None
isL24(rel) == rel.ok /\ rel.obj # None

\* the directed rules of a subject and the classifiers of a rule, sorted
DirectedRules(sub) == SelectSeq(SortedByOrder(sub), isDirected)
ObjectsOf(rels) == [i \in 1..Len(rels) |-> Get(rels[i].obj)]
ClassifiersOf(rule) == SortedByOrder(ObjectsOf(SelectSeq(rule.cls, isL24)))

Min(a, b) == IF a < b THEN a ELSE b

RECURSIVE Flatten(_, _)
Flatten(ss, i) == IF i > Len(ss) THEN <<>> ELSE ss[i] \o Flatten(ss, i + 1)

\* what C9 expects of one subject: priority and classifier of every rule
\* entry, rule by rule (k from 0) and classifier by classifier (j from 0)
ExpectedOfClassifiers(classifiers, k) ==
    [j \in 1..Len(classifiers) |->
        [prio |-> (8192 - 128 * Min(k, 63)) - Min(j - 1, 127),
         cls |-> classifiers[j].uri]]
ExpectedOfRule(rule, k) == ExpectedOfClassifiers(ClassifiersOf(rule), k)
ExpectedOfDirected(rules) ==
    Flatten([k \in 1..Len(rules) |-> ExpectedOfRule(rules[k], k - 1)], 1)
ExpectedOfSubject(sub) == ExpectedOfDirected(DirectedRules(sub))
ExpectedOfContract(subjects) ==
    Flatten([s \in 1..Len(subjects) |-> ExpectedOfSubject(subjects[s])], 1)

PrioAndClassifier(rules) ==
    [i \in 1..Len(rules) |-> [prio |-> rules[i].prio, cls |-> rules[i].cls]]

\* C9: within one subject the k-th directed rule (k from 0, rules in stable
\* ascending order of their order attribute) gives its j-th classifier (j
\* from 0, same ordering) the priority (8192 - 128*min(k,63)) - min(j,127);
\* two rules with one classifier each get 8192 and 8064.
C9_PriorityFormula ==
    ruleOut # None
        => PrioAndClassifier(Get(ruleOut).rules) = ExpectedOfContract(Get(ruleIn))

\* a subject with more than 64 directed rules, the first of them with more
\* than 128 classifiers, has been compiled: both counters have saturated
C9_Witness ==
    /\ ruleOut # None
    /\ Len(Get(ruleIn)) = 1
    /\ Len(DirectedRules(Get(ruleIn)[1])) > 64
    /\ Len(ClassifiersOf(DirectedRules(Get(ruleIn)[1])[1])) > 128
    /\ Get(ruleOut).rules[1].prio = 8192
    /\ Get(ruleOut).rules[128].prio = 8065
    /\ Get(ruleOut).rules[129].prio = 8065
    /\ Get(ruleOut).rules[Len(Get(ruleOut).rules)].prio = 128

\* for every entry of the compiled list, the subject and the rule it stems
\* from
LabelsOfRule(s, k, classifiers) ==
    [j \in 1..Len(classifiers) |-> [subject |-> s, rule |-> k]]
LabelsOfDirected(s, rules) ==
    Flatten([k \in 1..Len(rules) |->
               LabelsOfRule(s, k, ClassifiersOf(rules[k]))], 1)
LabelsOfSubject(s, sub) == LabelsOfDirected(s, DirectedRules(sub))
LabelsOfContract(subjects) ==
    Flatten([s \in 1..Len(subjects) |-> LabelsOfSubject(s, subjects[s])], 1)

\* the rule priority of the rule that entry i stems from: the priority of
\* the first entry of that rule
rulePrioAt(rules, labels, i) ==
    rules[CHOOSE f \in 1..i :
            /\ labels[f] = labels[i]
            /\ \A e \in 1..(f - 1) : labels[e] # labels[i]].prio

\* entry i and the next: never a higher priority, and a lower one when the
\* next entry starts another rule while the rule priority is above 128
StepsDown(rules, labels, i) ==
    /\ rules[i].prio >= rules[i + 1].prio
    /\ (labels[i] # labels[i + 1] /\ rulePrioAt(rules, labels, i) > 128)
          => rules[i].prio > rules[i + 1].prio

PrioritiesDescend(rules, labels) ==
    /\ Len(labels) = Len(rules)
    /\ \A i \in 1..(Len(rules) - 1) : StepsDown(rules, labels, i)

\* entry i and the next, both of one subject.  Within a rule the priority
\* falls by one, and stays once it is 127 below the rule priority.  From a
\* rule to the next it falls while the rule priority is above 128; at 128
\* the next rule starts at 128 again, whatever the last entry of the rule
\* before it
StepsDownInSubject(rules, labels, i) ==
    LET rulePrio == rulePrioAt(rules, labels, i)
    IN  IF labels[i] = labels[i + 1]
        THEN rules[i + 1].prio
                = rules[i].prio
                  - (IF rulePrio - rules[i].prio < 127 THEN 1 ELSE 0)
        ELSE IF rulePrio > 128
        THEN rules[i].prio > rules[i + 1].prio
        ELSE rules[i + 1].prio = 128 /\ rules[i].prio <= 128

PrioritiesDescendInSubject(rules, labels) ==
    /\ Len(labels) = Len(rules)
    /\ \A i \in 1..(Len(rules) - 1) :
          labels[i].subject = labels[i + 1].subject
             => StepsDownInSubject(rules, labels, i)

\* C8, as stated: in the rule list compiled for one contract, whatever the
\* number of subjects, rules and classifiers, priorities never increase in
\* emission order, and the first classifier of a rule gets a priority
\* strictly below every classifier of the preceding rule as long as the
\* rule priority is above 128.
C8_PrioritiesDescend ==
    ruleOut # None
        => PrioritiesDescend(Get(ruleOut).rules, LabelsOfContract(Get(ruleIn)))

\* C8, amended: within the entries of a rule priorities never increase;
\* within a subject the first entry of a rule is below every entry of the
\* rule before it as long as that rule was compiled at a rule priority
\* above 128.  Once the rule priority is 128 every rule of the subject
\* starts at 128 again, and the rule priority starts again at 8192 with
\* every subject, so the list may rise from a rule at the floor to the
\* next and from a subject to the next.
C8_PrioritiesDescendInSubject ==
    ruleOut # None
        => PrioritiesDescendInSubject(Get(ruleOut).rules,
                                      LabelsOfContract(Get(ruleIn)))

\* two adjacent entries of the compiled list, of one subject or of two,
\* the second with the higher priority
risesAt(labels, i, sameSubject) ==
    /\ (labels[i].subject = labels[i + 1].subject) = sameSubject
    /\ Get(ruleOut).rules[i].prio < Get(ruleOut).rules[i + 1].prio

\* a contract of two subjects has been compiled whose first subject has
\* more than 64 directed rules: the list steps down from rule to rule,
\* rises from 127 to 128 between two rules at the floor, and rises again
\* where the second subject begins
C8_Witness ==
    /\ ruleOut # None
    /\ Len(Get(ruleIn)) = 2
    /\ Len(DirectedRules(Get(ruleIn)[1])) > 64
    /\ Get(ruleOut).rules[1].prio > Get(ruleOut).rules[130].prio
    /\ LET labels == LabelsOfContract(Get(ruleIn))
       IN  /\ \E i \in 1..(Len(labels) - 1) : risesAt(labels, i, TRUE)
           /\ \E i \in 1..(Len(labels) - 1) : risesAt(labels, i, FALSE)

\* a rule of the subject has been compiled by the loop over the rules
RuleCompiled == callIn # None /\ callOut # None /\ ruleIn # None

\* the priority and the classifier priority of the entries that the rule
\* just compiled has emitted, and the rule priority before and after it
PrioInRange(prio, rulePrio) ==
    /\ prio \in 1..MAX_POLICY_RULE_PRIORITY
    /\ (rulePrio - prio) \in 0..127

PriosInRange(before, after) ==
    /\ before.rulePrio \in 128..MAX_POLICY_RULE_PRIORITY
    /\ after.rulePrio \in 128..MAX_POLICY_RULE_PRIORITY
    /\ \A i \in 1..Len(after.newRules) :
          PrioInRange(after.newRules[i].prio, before.rulePrio)

\* C36: every priority that updatePolicyRules emits lies in 1..8192,
\* whatever the number of rules of a subject and of classifiers of a rule:
\* the rule priority is never below 128, the classifier priority never
\* above 127, and their difference never wraps as a 16-bit unsigned value.
C36_PrioritiesInRange ==
    RuleCompiled => PriosInRange(Get(callIn), Get(callOut))

\* a rule of more than 128 classifiers has been compiled at rule priority
\* 128, after more than 64 others: its last entry has priority 1
C36_Witness ==
    /\ RuleCompiled
    /\ Get(callIn).compiled > 64
    /\ Get(callIn).rulePrio = 128
    /\ Get(callOut).rulePrio = 128
    /\ Len(Get(callOut).newRules) > 128
    /\ Get(callOut).newRules[1].prio = 128
    /\ Get(callOut).newRules[Len(Get(callOut).newRules)].prio = 1

\* C23: every compiled rule with redirect = true has allow = false, for
\* every set and every order of allow-deny and redirect actions of the rule.
C23_RedirectNeverAllows ==
    ruleOut # None
        => \A i \in 1..Len(Get(ruleOut).rules) :
              Get(ruleOut).rules[i].redirect => ~Get(ruleOut).rules[i].allow

\* C39: every compiled rule with redirect = true carries the URI of a
\* redirect destination group, also when the redirect action of the rule
\* does not resolve or has no destination-group reference.
C39_RedirectCarriesDestGroup ==
    ruleOut # None
        => \A i \in 1..Len(Get(ruleOut).rules) :
              Get(ruleOut).rules[i].redirect
                 => Get(ruleOut).rules[i].redirGrp # None

\* a compiled rule has no URI of a destination group only when it has no
\* redirect action that resolves with a destination-group reference whose
\* target is set
refersToDestGroup(r) ==
    /\ r.set /\ r.kind = "RedirectAction" /\ r.obj # None
    /\ Get(r.obj).destRef # None
    /\ Get(Get(r.obj).destRef).target # None

DestGroupComesFromAnAction ==
    ruleOut # None
        => \A i \in 1..Len(Get(ruleOut).rules) :
              Get(ruleOut).rules[i].redirGrp # None
                 => \E k \in 1..Len(Get(ruleIn)[1][1].acts) :
                       refersToDestGroup(Get(ruleIn)[1][1].acts[k])

----------------------------------------------------------------------------
(* Properties of the redirect destination lists *)

\* an IPv4 address as a number, and the 16-bit groups of an IPv6 address
\* from the most significant down
v4Number(bytes) ==
    ((bytes[1] * 256 + bytes[2]) * 256 + bytes[3]) * 256 + bytes[4]
v6Group(bytes, g) == bytes[2 * g - 1] * 256 + bytes[2 * g]

\* a is no later than b in the order of IP addresses: IPv4 before IPv6,
\* IPv4 by number, IPv6 by the first group that differs
IpNotAfter(a, b) ==
    IF a.v6 # b.v6 THEN ~a.v6
    ELSE IF ~a.v6 THEN v4Number(a.bytes) <= v4Number(b.bytes)
    ELSE \/ a.bytes = b.bytes
         \/ \E g \in 1..8 :
               /\ v6Group(a.bytes, g) < v6Group(b.bytes, g)
               /\ \A h \in 1..(g - 1) : v6Group(a.bytes, h) = v6Group(b.bytes, h)

SortedByIp(l) ==
    \A i, j \in 1..Len(l) : i < j => IpNotAfter(l[i].ip, l[j].ip)

\* C10: after every updateRedirectDestGroup, the destination list stored
\* for the group, which getPolicyDestGroup returns, is sorted in
\* non-decreasing order of the IP addresses of the destinations.
C10_RedirectListSorted ==
    \A u \in RedirGrps :
        /\ u \in DOMAIN redirGrpMap => SortedByIp(redirGrpMap[u].redirDstList)
        /\ SortedByIp(getPolicyDestGroup(u, <<>>).redirList)

\* updateRedirectDestGroup has stored three destinations that the store
\* lists in another order: the IPv6 one first, 10.0.0.10 before 10.0.0.9
C10_Witness ==
    /\ lastTask.op = "updateRedirectDestGroup"
    /\ stRedir["rg1"] # None
    /\ Len(Get(stRedir["rg1"]).dests) = 3
    /\ Get(stRedir["rg1"]).dests[1].uri = "d6"
    /\ Get(stRedir["rg1"]).dests[2].uri = "d10"
    /\ Get(stRedir["rg1"]).dests[3].uri = "d9"
    /\ getPolicyDestGroup("rg1", <<>>).found
    /\ Len(getPolicyDestGroup("rg1", <<>>).redirList) = 3
    /\ getPolicyDestGroup("rg1", <<>>).redirList[1].dest = "d9"
    /\ getPolicyDestGroup("rg1", <<>>).redirList[3].dest = "d6"

----------------------------------------------------------------------------
(* Properties of the forwarding-domain queries *)

\* the chain of an endpoint group as the store has it: the flood domain its
\* network reference targets, if it targets one, then the bridge domain,
\* then the routing domain
TargetOf(ref, cls) ==
    IF ref # None /\ Get(ref).cls = cls THEN Some(Get(ref).uri) ELSE None

ChainFD(g) == TargetOf(Get(stEpg[g]).net, FloodDomainClass)
ChainBD(g) ==
    IF ChainFD(g) = None THEN TargetOf(Get(stEpg[g]).net, BridgeDomainClass)
    ELSE IF stFD[Get(ChainFD(g))] = None THEN None
    ELSE TargetOf(Get(stFD[Get(ChainFD(g))]).net, BridgeDomainClass)
ChainRD(g) ==
    IF ChainBD(g) = None \/ stBD[Get(ChainBD(g))] = None THEN None
    ELSE TargetOf(Get(stBD[Get(ChainBD(g))]).net, RoutingDomainClass)

\* (optional flood domain ->) bridge domain -> routing domain, all resolvable
FullChain(g) ==
    /\ stEpg[g] # None
    /\ ChainRD(g) # None
    /\ stRD[Get(ChainRD(g))] # None

\* the retention policy an instance context refers to, when it refers to
\* one that the store holds
ReferencedRetention(inst) ==
    IF inst # None /\ Get(inst).ret # None /\ Get(Get(inst).ret) \in stAux.rets
    THEN Get(inst).ret ELSE None

BDRetention(g) == ReferencedRetention(Get(stBD[Get(ChainBD(g))]).inst)
RDRetention(g) == ReferencedRetention(Get(stRD[Get(ChainRD(g))]).inst)

DomainTaskCompleted ==
    \E k \in pending : k.q = "dl" /\ pending' = pending \ {k}

\* C13: after updateDomain has run for a group whose chain is (flood
\* domain ->) bridge domain -> routing domain with every object resolvable,
\* getFDForGroup, getBDForGroup and getRDForGroup return the objects of the
\* chain, and the two retention queries return the policy that the instance
\* context of the bridge domain, of the routing domain, refers to.
C13_QueriesReturnTheChain ==
    [][DomainTaskCompleted =>
          \A g \in Groups :
             (g \in DOMAIN group_map' /\ FullChain(g)) =>
                /\ getFDForGroup(g)' = ChainFD(g)
                /\ getBDForGroup(g)' = ChainBD(g)
                /\ getRDForGroup(g)' = ChainRD(g)
                /\ BDRetention(g) # None =>
                      getL2EPRetentionPolicyForGroup(g)'
                          = {Returned(BDRetention(g))}
                /\ RDRetention(g) # None =>
                      getL3EPRetentionPolicyForGroup(g)'
                          = {Returned(RDRetention(g))}]_vars

\* updateDomain has run for g1, whose chain starts at the flood domain, and
\* the five queries return the chain and the two retention policies
C13_Witness ==
    /\ lastTask.op = "updateDomain"
    /\ FullChain("g1")
    /\ ChainFD("g1") = Some("fd1")
    /\ getFDForGroup("g1") = Some("fd1")
    /\ getBDForGroup("g1") = Some("bd1")
    /\ getRDForGroup("g1") = Some("rd1")
    /\ getL2EPRetentionPolicyForGroup("g1") = {Returned(Some("ret2"))}
    /\ getL3EPRetentionPolicyForGroup("g1") = {Returned(Some("ret3"))}

----------------------------------------------------------------------------
(* Properties of the notifications *)

\* C11: updateContracts notifies only the contracts whose newly compiled
\* rule list differs from the stored one: when the contract resolves, its
\* stored list is not empty and the compiled list equals it, the run emits
\* no contractUpdated for it.
C11_NoNotificationForUnchangedRules ==
    [][UpdateContractsCompleted =>
          \A c \in DOMAIN contractMap :
             (/\ stContract[c] # None
              /\ contractMap[c].rules # <<>>
              /\ c \in DOMAIN contractMap'
              /\ contractMap'[c].rules = contractMap[c].rules)
             => c \notin lastTask'.ctNotif]_vars

----------------------------------------------------------------------------
(* Properties of the replay of events *)

SecondRunDone == replay.round = 2 /\ pending = {}

\* C12: when the same events have been delivered a second time against the
\* unchanged store and their tasks have run, every index equals its state
\* after the first run and the second run has delivered no egDomainUpdated
\* and no contractUpdated notification.
C12_ReplayIsIdempotent ==
    SecondRunDone =>
        /\ Indices = Get(replay.indices)
        /\ replay.notified = {}

\* the part of C12 about the indices alone
C12_ReplayKeepsIndices ==
    SecondRunDone => Indices = Get(replay.indices)

----------------------------------------------------------------------------
(* Properties of the task queue *)

\* the burst of the key has caused exactly one run once its task has been
\* started, and none before
OneRunPerBurst(key, task) ==
    IF queuedAt(taskQueue, task) # {}
    THEN queueLog[key].events >= 1 /\ queueLog[key].runs = 0
    ELSE queueLog[key].runs = IF queueLog[key].events > 0 THEN 1 ELSE 0

\* C14: for every key the queue holds at most one task that has not
\* started, and the events for contract policy (for security groups) that
\* arrive before the worker starts the pending task cause exactly one run
\* of updateContracts (of updateSecGrps).
C14_OneTaskPerKey ==
    /\ \A i \in 1..Len(taskQueue) :
          Cardinality(queuedAt(taskQueue, taskQueue[i])) = 1
    /\ OneRunPerBurst("contract", ContractKey)
    /\ OneRunPerBurst("secgroup", SecGroupKey)

\* a burst of MaxBurst contract events and a burst of two events for
\* security groups have each caused one run
C14_Witness ==
    /\ taskQueue = <<>>
    /\ queueLog["contract"] = [events |-> MaxBurst, runs |-> 1]
    /\ queueLog["secgroup"] = [events |-> 2, runs |-> 1]
    /\ lastTask.op = "updateSecGrps"

\* a step in which the store changes an object and the sink of its class
\* runs objectUpdated on the thread of the store
CallbackStep == storeVars' # storeVars \/ stSecGrp' # stSecGrp

\* C15: no objectUpdated callback modifies an index on the thread of the
\* store: every insertion into and every removal from group_map,
\* contractMap, secGrpMap and the other indices is made by a task that the
\* worker runs.
C15_CallbacksLeaveIndices ==
    [][CallbackStep => (Indices' = Indices /\ secGrpMap' = secGrpMap)]_vars

----------------------------------------------------------------------------
(* Properties of the mutexes *)

\* the mutex thread t is waiting for, if any
Wants(t) ==
    IF threads[t].pc \in {"wantState", "wantEntry", "wantRead", "callback"}
    THEN "state"
    ELSE IF threads[t].pc = "notify" /\ threads[t].toNotify # {}
    THEN "listener"
    ELSE "none"

Holder(m) == IF m = "state" THEN state_mutex ELSE listener_mutex

\* t waits for a mutex that u holds
WaitsFor(t, u) == Wants(t) # "none" /\ Holder(Wants(t)) = Some(u)

HoldsBoth(t) == state_mutex = Some(t) /\ listener_mutex = Some(t)

\* C16: no thread ever holds state_mutex and listener_mutex at the same
\* time, a listener callback that calls a query included.
C16_NeverBothMutexes == \A t \in Threads : ~HoldsBoth(t)

\* C17: the threads never deadlock: no thread waits for a mutex it holds,
\* no threads wait for each other in a cycle, and no thread holds
\* state_mutex while it acquires listener_mutex.
C17_NoDeadlock ==
    /\ \A t \in Threads : ~WaitsFor(t, t)
    /\ \A t, u \in Threads : ~(WaitsFor(t, u) /\ WaitsFor(u, t))
    /\ \A t, u, v \in Threads :
          ~(WaitsFor(t, u) /\ WaitsFor(u, v) /\ WaitsFor(v, t))
    /\ \A t \in Threads : Wants(t) = "listener" => state_mutex # Some(t)

\* the mutexes are contended: the worker, holding listener_mutex in a
\* callback, waits for state_mutex, which the reader holds, while the store
\* waits for listener_mutex
C17_Witness ==
    /\ WaitsFor("worker", "reader")
    /\ WaitsFor("store", "worker")
    /\ listener_mutex = Some("worker")

\* the indices ix once stop() has cleared its three maps
stopped(ix) ==
    [ix EXCEPT !.group_map = EmptyMap, !.vnid_map = EmptyMap,
               !.redirGrpMap = EmptyMap]

\* the worker is in the query of its callback
WorkerQueries == threads["worker"].pc = "query"

\* what the query of the worker's callback returns on the indices ix
workerQuery(ix) == listenerQuery(ix, Get(threads["worker"].current))

\* what the indices held when the update routine released state_mutex
afterUpdate == Get(threads["worker"].after)

ContractCallbackSeesRules ==
    /\ WorkerQueries
    /\ Get(threads["worker"].current) = <<"contractUpdated", "c1">>
    /\ getContractRules(contractMap, "c1") # <<>>
    /\ stContract["c1"] = None

\* the callback for secGroupUpdated(s1) reads the rules updateSecGrps has
\* just compiled
SecGroupCallbackSeesRules ==
    /\ WorkerQueries
    /\ Get(threads["worker"].current) = <<"secGroupUpdated", "s1">>
    /\ getSecGroupRules(secGrpMap, "s1") # <<>>

\* the callback for domainUpdated(bd1) finds the group g1 without the bridge
\* domain updateDomain has just taken from it
DomainCallbackSeesGroups ==
    /\ WorkerQueries
    /\ Get(threads["worker"].current) = <<"domainUpdated", "bd1">>
    /\ "g1" \in DOMAIN group_map
    /\ getBDForGroup("g1") = None

GroupCallbackAfterStop ==
    /\ WorkerQueries
    /\ Get(threads["worker"].current) = <<"egDomainUpdated", "g1">>
    /\ listenerQuery(afterUpdate, <<"egDomainUpdated", "g1">>) # None
    /\ group_map = EmptyMap

----------------------------------------------------------------------------
(* Properties of stop() *)

IndicesEmpty ==
    /\ group_map = EmptyMap
    /\ vnid_map = EmptyMap
    /\ redirGrpMap = EmptyMap
    /\ contractMap = EmptyMap
    /\ groupContractMap = EmptyMap
    /\ secGrpMap = EmptyMap
    /\ rd_map = EmptyMap
    /\ l3n_map = EmptyMap
    /\ nat_epg_l3_ext = EmptyMap

\* C19: after stop() returns every index of the policy manager is empty.
C19_StopClearsEveryIndex == [][StopClear => IndicesEmpty']_vars

\* C20: after stop() returns none of the four sinks is registered for any
\* class: every registerListener of start() is matched in stop().
C20_StopUnregistersEverySink == [][StopClear => registered' = {}]_vars
----------------------------------------------------------------------------
(* Properties of the policy listeners *)

\* C21: when the callback of one listener throws, every other registered
\* listener still receives that notification and the remaining
\* notifications of the task are delivered.
C21_ThrowingListenerIsContained ==
    delivery.ended # "notifying" =>
        /\ delivery.left = {}
        /\ delivery.expected \subseteq delivery.got

\* without a throwing callback every notification is made and reaches
\* every listener registered when it is made
NoThrowDeliversAll ==
    (delivery.ended # "notifying" /\ ~delivery.thrown) =>
        /\ delivery.left = {}
        /\ delivery.expected \subseteq delivery.got

\* a listener registered during the notify loop gets the notifications
\* made after it registered and none of those made before
LateListenerSeen ==
    /\ delivery.ended = "returned"
    /\ \E l \in Listeners, n, m \in delivery.toNotify :
          <<l, n>> \in delivery.got /\ <<l, m>> \notin delivery.got
----------------------------------------------------------------------------
(* Properties of the redirect group notifications *)

\* two destination lists differ in length or, by operator==, at a position
destListsDiffer(old, new) ==
    \/ Len(old) # Len(new)
    \/ \E i \in 1..Len(old) : ~PolicyRedirectDest_eq(old[i], new[i])

\* the group u as the store holds it differs from what redirGrpMap holds
\* for it: in its destinations, resolved and in ascending order as they are
\* stored, in its hash algorithm or in its resilient-hash flag
groupDiffers(u) ==
    \/ \E o \in resolveRedirectDests(Get(stRedir[u]).dests, <<>>) :
          \/ o.aborted
          \/ destListsDiffer(redirGrpAt(redirGrpMap, u).redirDstList,
                             sortRedirects(Get(o.value)))
    \/ getHashAlgo(Get(stRedir[u])) # redirGrpAt(redirGrpMap, u).hashAlgo
    \/ getResilientHashEnabled(Get(stRedir[u]))
          # redirGrpAt(redirGrpMap, u).resilientHashEnabled

RedirectGroupTask(u) ==
    /\ ClKey(RedirectDestGroupClass, u) \in pending
    /\ ClKey(RedirectDestGroupClass, u) \notin pending'

\* C24: updateRedirectDestGroup for a resolvable group notifies the group's
\* ctrctSet if and only if the resolved destination list differs from the
\* stored one in length or at some position, or the hash algorithm or the
\* resilient-hash flag differs; a run over an unchanged group with a
\* non-empty destination list notifies nothing.
C24_RedirectGroupNotifiesOnChange ==
    [][\A u \in RedirGrps :
          (RedirectGroupTask(u) /\ stRedir[u] # None)
              => lastTask'.ctNotif
                   = IF groupDiffers(u) THEN ctrctSetOf(u) ELSE {}]_vars
----------------------------------------------------------------------------
(* Properties of the security group index *)

UpdateSecGrpsCompleted == SecGroupKey \in pending /\ SecGroupKey \notin pending'

\* C26: after a sec-group event for a URI s whose object does not resolve,
\* the next updateSecGrps run delivers secGroupUpdated(s) once and leaves no
\* entry for s in secGrpMap; later runs, which find no entry for s, deliver
\* no notification for s.
C26_RemovedSecGroupNotifiedOnce ==
    [][UpdateSecGrpsCompleted
         => \A s \in SecGrps :
               stSecGrp[s] = None
                  => /\ s \notin DOMAIN secGrpMap'
                     /\ s \in lastTask'.sgNotif <=> s \in DOMAIN secGrpMap]_vars

\* updateSecGrps has found s1 removed, notified it and erased its entry,
\* while s2 keeps its entry and its rules
C26_Witness ==
    /\ lastTask.op = "updateSecGrps"
    /\ "s1" \in lastTask.sgNotif
    /\ stSecGrp["s1"] = None
    /\ "s1" \notin DOMAIN secGrpMap
    /\ "s2" \in DOMAIN secGrpMap
    /\ secGrpMap["s2"] # <<>>
----------------------------------------------------------------------------
(* Properties of the removal of groups *)

\* the groups updateDomain visits: those of group_map and, for an EpGroup
\* event, the group of the event
visitedGroups(task) ==
    DOMAIN group_map
    \cup (IF task.cls = EpGroupClass THEN {task.uri} ELSE {})

\* C27: after every completed updateDomain task group_map holds no group
\* whose endpoint-group object does not resolve, and every group removed for
\* that reason is notified by egDomainUpdated, once, in the task that
\* removes it.
C27_UnresolvableGroupsRemoved ==
    [][DomainTaskCompleted =>
          /\ \A g \in DOMAIN group_map' : stEpg[g] # None
          /\ \A g \in visitedGroups(lastTask') :
                stEpg[g] = None => g \in lastTask'.egNotif
          /\ lastTask'.egNotif \subseteq visitedGroups(lastTask')]_vars

\* updateDomain has removed a group that had an entry with an encap id and
\* notified it, and another group keeps its entry
C27_Witness ==
    /\ lastTask.op = "updateDomain"
    /\ \E g \in lastTask.egNotif :
          /\ stEpg[g] = None
          /\ g \notin DOMAIN group_map
          /\ g # lastTask.uri
    /\ DOMAIN group_map # {}
----------------------------------------------------------------------------
(* Properties of the NAT notifications *)

\* the routing domains of the external networks that the NAT index records
\* for the notified groups
natDomainsOf(groups) ==
    {Get(l3n_map[n].routingDomain) :
        n \in {m \in DOMAIN l3n_map :
                 \E g \in groups :
                    g \in DOMAIN nat_epg_l3_ext /\ m \in nat_epg_l3_ext[g]}}

\* C28: in one updateDomain(classId, uri) task domainUpdated(RoutingDomain,
\* rd) is delivered for the routing domain rd of every external network
\* whose NAT EPG is a notified group, and no URI receives domainUpdated more
\* than once: the triggering uri is not notified again through the NAT path.
C28_NatDomainsNotifiedOnce ==
    [][DomainTaskCompleted =>
          /\ \A rd \in natDomainsOf(lastTask'.egNotif) :
                <<RoutingDomainClass, rd>> \in lastTask'.domNotif
          /\ lastTask'.domCalls
               = Cardinality({d[2] : d \in lastTask'.domNotif})]_vars

\* updateDomain(RoutingDomain, rd1) has notified g1, the NAT EPG of a
\* network of rd1 and of a network of rd2: rd1 and rd2 are notified once each
C28_Witness ==
    /\ lastTask.op = "updateDomain"
    /\ lastTask.cls = RoutingDomainClass
    /\ lastTask.uri = "rd1"
    /\ "g1" \in lastTask.egNotif
    /\ lastTask.domNotif
         = {<<RoutingDomainClass, "rd1">>, <<RoutingDomainClass, "rd2">>}
    /\ lastTask.domCalls = 2
    /\ natDomainsOf({"g1"}) = {"rd1", "rd2"}
----------------------------------------------------------------------------
(* Properties of the comparison of policy rules *)

\* C29: two PolicyRule values compare equal with operator== if and only if
\* they agree on every content field: direction, allow flag, redirect flag,
\* priority, classifier, remote-subnet set and redirect-destination-group
\* URI.
C29_RuleEqualityByContent ==
    callOut # None
        => (Get(callOut) <=> Get(callIn)[1] = Get(callIn)[2])
----------------------------------------------------------------------------
(* Properties of findSubnetForEp *)

\* the subnets of the map whose address text stands for no address
malformedSubnets(subnet_map) ==
    {u \in DOMAIN subnet_map :
        /\ subnet_map[u].address # None
        /\ address_from_string(Get(subnet_map[u].address)) = None}

\* C30: a subnet whose address string fails to parse is skipped:
\* findSubnetForEp returns it for no endpoint address and no prefix length.
C30_MalformedSubnetSkipped ==
    (callIn # None /\ callOut # None /\ Get(callOut) # None)
        => Get(Get(callOut)).uri \notin malformedSubnets(Get(callIn).subnet_map)

\* the loop goes on after a subnet it skips: a well-formed subnet that
\* contains the address is returned when the only other subnet of the group
\* has no address or no prefix length
SkippedSubnetDoesNotEndTheLoop ==
    (callIn # None /\ callOut # None)
        => LET m == Get(callIn).subnet_map
           IN  (/\ "sn-10" \in DOMAIN m
                /\ DOMAIN m \subseteq {"sn-10", "sn-noaddr", "sn-nolen"}
                /\ Get(callIn).ip.bytes = <<10, 0, 0, 5>>)
                   => Get(callOut) = Some(m["sn-10"])

----------------------------------------------------------------------------
(* Properties of the vnid queries *)

\* the query fn has been made for a group that has an entry
VnidQueried(fn) ==
    /\ callIn # None /\ callOut # None
    /\ Get(callIn).fn = fn
    /\ Get(callIn).gs # None

\* the encap id of an instance context of the group state the query found
encapOf(ctx) == Get(ctx).encap

\* C31 as stated: getBDVnidForGroup and getRDVnidForGroup both return the
\* encap id of instContext, not that of instBDContext or instRDContext,
\* whenever those differ.
C31_BothReadInstContext ==
    /\ VnidQueried("getBDVnidForGroup")
           => LET gs == Get(Get(callIn).gs)
              IN  (/\ gs.instContext # None /\ gs.instBDContext # None
                   /\ encapOf(gs.instContext) # encapOf(gs.instBDContext))
                      => Get(callOut) = Returned(encapOf(gs.instContext))
    /\ VnidQueried("getRDVnidForGroup")
           => LET gs == Get(Get(callIn).gs)
              IN  (/\ gs.instContext # None /\ gs.instRDContext # None
                   /\ encapOf(gs.instContext) # encapOf(gs.instRDContext))
                      => Get(callOut) = Returned(encapOf(gs.instContext))

\* C31, amended: getBDVnidForGroup returns the encap id of instContext
\* when the group has both instBDContext and instContext, whatever the
\* encap id of instBDContext; getRDVnidForGroup returns the encap id of
\* instRDContext.
C31_OnlyBDReadsInstContext ==
    /\ VnidQueried("getBDVnidForGroup")
           => LET gs == Get(Get(callIn).gs)
              IN  (gs.instContext # None /\ gs.instBDContext # None)
                      => Get(callOut) = Returned(encapOf(gs.instContext))
    /\ VnidQueried("getRDVnidForGroup")
           => LET gs == Get(Get(callIn).gs)
              IN  gs.instRDContext # None
                      => Get(callOut) = Returned(encapOf(gs.instRDContext))

\* both queries have their case: the three encap ids of the group differ,
\* and the query for the bridge domain, or for the routing domain, returned
C31_Witness ==
    /\ callIn # None /\ callOut # None /\ Get(callIn).gs # None
    /\ LET gs == Get(Get(callIn).gs)
       IN  /\ gs.instContext # None /\ gs.instBDContext # None
           /\ gs.instRDContext # None
           /\ encapOf(gs.instContext) = Some(1)
           /\ encapOf(gs.instBDContext) = Some(2)
           /\ encapOf(gs.instRDContext) = Some(3)
           /\ Get(callIn).fn = "getRDVnidForGroup"
           /\ Get(callOut) = Returned(Some(3))

\* C37: in every reachable group state in which instBDContext is present,
\* instContext is present as well, so getBDVnidForGroup never reads the
\* encap id of an absent instance context.
C37_BDContextImpliesInstContext ==
    \A g \in DOMAIN group_map :
        group_map[g].instBDContext # None => group_map[g].instContext # None

----------------------------------------------------------------------------
(* Properties of the span renderer *)

\* a connected update of a session has been made
SpanUpdateMade ==
    /\ callIn # None /\ callOut # None
    /\ Get(callIn).seSt # None
    /\ Get(callIn).connected

\* the requests of an update that delete the mirror or the ERSPAN port
deletionsSent ==
    {i \in 1..Len(Get(callOut).sent) :
        Get(callOut).sent[i].op \in {"deleteMirror", "deleteErspanPort"}}

\* what is provisioned matches the session: the same source and destination
\* ports, the same remote address and version
mirrorMatches(db, seSt) ==
    /\ db.mirror # None /\ db.erspan # None
    /\ Get(db.mirror).src_ports = srcPortsOf(seSt.srcEps)
    /\ Get(db.mirror).dst_ports = dstPortsOf(seSt.srcEps)
    /\ Get(db.erspan).remoteIp = to_string(seSt.destination)
    /\ Get(db.erspan).version = seSt.version

\* the first test of handleSpanUpdate in the values the source tests: a
\* provisioned session is deleted if it has source endpoints, or its
\* destination is set, or getAdminState() is 0, and nothing is sent if none
\* of the three holds
SessionTestByValue ==
    SpanUpdateMade =>
        LET seSt == Get(Get(callIn).seSt)
            db == Get(callIn).db
            sent == Get(callOut).sent
        IN  IF seSt.srcEps # {} \/ ~is_unspecified(seSt.destination)
               \/ seSt.adminState = 0
            THEN db.mirror # None
                    => /\ Len(sent) >= 1
                       /\ sent[1] = [op |-> "deleteMirror", name |-> seSt.name]
            ELSE sent = <<>>

\* C40: when the mirror provisioned in OVSDB matches the session,
\* handleSpanUpdate sends no request that deletes the mirror or the ERSPAN
\* port.
C40_MatchingMirrorIsKept ==
    SpanUpdateMade =>
        (mirrorMatches(Get(callIn).db, Get(Get(callIn).seSt))
            => deletionsSent = {})

----------------------------------------------------------------------------
(* Properties of the draining queue *)

\* nothing is queued or running, and no key has an event that was not
\* followed by the start of a run of its routine
Quiescent ==
    /\ taskQueue = <<>>
    /\ callIn = None
    /\ queueLog.uncovered = {}
    /\ queueLog.covering = {}

\* C33: once the store has stopped changing the task queue becomes empty
\* and stays so, and for every event delivered to a sink a run of the
\* routine of its key that started after the event has completed.
C33_QueueDrains == <>[]Quiescent

\* all MaxEvents events were delivered, one of them replaced a queued task
\* of its key, and every task has completed
C33_Witness ==
    /\ Quiescent
    /\ queueLog.delivered = MaxEvents
    /\ queueLog.coalesced >= 1

----------------------------------------------------------------------------
(* Properties of a redirect group that comes back *)

\* the group u of the store has a destination that resolves completely
hasCompleteDest(u) ==
    /\ stRedir[u] # None
    /\ \A o \in resolveRedirectDests(Get(stRedir[u]).dests, <<>>) :
          ~o.aborted /\ Get(o.value) # <<>>

\* the redirect group u was deleted and the deletion was processed, so it
\* has no entry; the store holds it again, and the task of its re-creation
\* is the only one queued
RecreatedGroupTask(u) ==
    /\ RedirectGroupTask(u)
    /\ pending = {ClKey(RedirectDestGroupClass, u)}
    /\ u \notin DOMAIN redirGrpMap
    /\ hasCompleteDest(u)

\* C34: when a redirect group u that the compiled rules of a contract c
\* refer to was deleted and is created again with a complete destination,
\* the updateRedirectDestGroup run for the re-creation puts c in its notify
\* set.
C34_RecreatedGroupNotifiesContracts ==
    [][\A u \in RedirGrps :
          RecreatedGroupTask(u) => redirectingTo(u) \subseteq lastTask'.ctNotif]_vars

----------------------------------------------------------------------------
(* Properties of updateRedirectDestGroups *)

\* C38: updateRedirectDestGroups removes no entry of redirGrpMap while its
\* iterator points to it: no call to updateRedirectDestGroup made from the
\* loop erases the entry of the group it was called for.
C38_NoEraseUnderTheIterator ==
    callOut # None => Get(callOut).erased = {}

----------------------------------------------------------------------------
(* Properties of the walk *)

\* C35: the forwarding-domain chain walk of updateEPGDomains terminates for
\* every store content, including stores in which the network references
\* of flood domains and bridge domains form a cycle or target an object of
\* an unexpected class.
C35_WalkTerminates ==
    callOut # None => Get(callOut).returns

\* a reference to an object of a class that is no forwarding domain ends
\* the walk
UnexpectedClassEndsTheWalk ==
    (callIn # None /\ callOut # None)
        => ((/\ Get(callIn).net = Some(Ref(FloodDomainClass, "fd1"))
             /\ Get(callIn).fd = Some(Ref(EpGroupClass, "g1")))
                => Get(callOut).returns)

====
